---------------------------- MODULE Spec2Model ----------------------------
(***************************************************************************)
(* The terminal selection engine of aws-cdk-interactive-cli:               *)
(* customSearchableSelect and customMultiSelect of                         *)
(* src/src/services/InteractiveCDKManager.ts (the copy in                  *)
(* src/dist/index.js has the same key handler).                            *)
(*                                                                         *)
(* Strings are sequences of one-character strings.  Array positions and    *)
(* the members of selectedIndices are 0-based as in the source; a choice   *)
(* object is represented by its position in `choices`, which is what       *)
(* choices.indexOf(choice) returns for it.                                 *)
(***************************************************************************)
EXTENDS Integers, Sequences, FiniteSets, TLC

\* Longest search query typed in one session.
MaxQuery == 2

Min(a, b) == IF a < b THEN a ELSE b
Max(a, b) == IF a > b THEN a ELSE b

\* `undefined`, the result of reading an array outside its bounds.
Undefined == -1

(***************************************************************************)
(* Strings                                                                 *)
(***************************************************************************)
\* String.prototype.toLowerCase on one character of the modelled alphabet.
LowerChar(ch) ==
  CASE ch = "A" -> "a"
    [] ch = "C" -> "c"
    [] ch = "H" -> "h"
    [] ch = "O" -> "o"
    [] OTHER -> ch

toLowerCase(s) == [k \in 1..Len(s) |-> LowerChar(s[k])]

\* String.prototype.includes: q occurs in s as a contiguous substring.
includes(s, q) ==
  \E k \in 0..(Len(s) - Len(q)) : SubSeq(s, k + 1, k + Len(q)) = q

IsWhitespace(ch) == ch = " "

RECURSIVE trimStart(_)
trimStart(s) ==
  IF s # << >> /\ IsWhitespace(Head(s)) THEN trimStart(Tail(s)) ELSE s

RECURSIVE trimEnd(_)
trimEnd(s) ==
  IF s # << >> /\ IsWhitespace(s[Len(s)])
  THEN trimEnd(SubSeq(s, 1, Len(s) - 1))
  ELSE s

\* String.prototype.trim
trim(s) == trimEnd(trimStart(s))

\* String.prototype.slice(0, -1)
sliceDropLast(s) == SubSeq(s, 1, Len(s) - 1)

(***************************************************************************)
(* Inputs: choice lists and key chunks                                     *)
(***************************************************************************)
Alpha == [name |-> <<"A", "l", "p", "h", "a">>, value |-> <<"a">>]
Child == [name |-> <<"C", "h", "i", "l", "d">>, value |-> <<"b">>]
Other == [name |-> <<"O", "t", "h", "e", "r">>, value |-> <<"c", "i">>]
Hi    == [name |-> <<"h", "i">>, value |-> <<"c">>]
Ho    == [name |-> <<"H">>, value |-> <<"c">>]

\* The choice lists a session is started with (never empty: every caller
\* returns before the session when it has nothing to offer).
ChoiceLists == { <<Alpha, Child, Other>>, <<Hi, Ho>> }

\* Single characters in the range " " .. "~" that a session may receive.
PrintableChars == {"c", "h", "i", "H", " ", "/"}

UpKeys   == {"ESC[A", "ESC[1;2A", "ESC[1;9A", "ESCOA"}
DownKeys == {"ESC[B", "ESC[1;2B", "ESC[1;9B", "ESCOB"}
BackspaceKeys == {"DEL", "BS"}
\* Chunks no branch of handleKey recognises: right arrow, tab, a pasted pair.
OtherKeys == {"ESC[C", "TAB", "hi"}

Keys == {"^C", "CR", "ESC"} \cup UpKeys \cup DownKeys \cup BackspaceKeys
          \cup PrintableChars \cup OtherKeys

\* key.length === 1 && key >= " " && key <= "~"
IsPrintable(key) == key \in PrintableChars

\* The class of a key chunk, recorded in lastKey.
KeyClass(key) ==
  CASE key = "^C" -> "CtrlC"
    [] key \in UpKeys -> "Up"
    [] key \in DownKeys -> "Down"
    [] key = " " -> "Space"
    [] key = "CR" -> "Enter"
    [] key \in BackspaceKeys -> "Backspace"
    [] key = "/" -> "Slash"
    [] key = "ESC" -> "Escape"
    [] key \in PrintableChars \ {" ", "/"} -> "Char"
    [] OTHER -> "Other"

\* The classes of the chunks of a set.
KeyClasses(keys) == {KeyClass(key) : key \in keys}

(***************************************************************************)
(* State                                                                   *)
(***************************************************************************)
VARIABLES
  engine,           \* "searchable" (customSearchableSelect) or "multi" (customMultiSelect)
  multiSelect,      \* the multiSelect parameter (TRUE for customMultiSelect)
  choices,          \* the full list the session was started with
  currentIndex,     \* cursor, a position in filteredChoices
  selectedIndices,  \* Set<number> of positions in choices
  selectedItems,    \* selectedItems / selectedStacks: the selected values
  searchQuery,
  isSearching,      \* customMultiSelect only
  filteredChoices,  \* the filtered view, as positions in choices
  screen,           \* what displayChoices drew last
  rawMode,          \* process.stdin raw mode
  stdinPaused,      \* process.stdin paused
  pc,               \* "active", "resolved", "exited" or "crashed"
  result,           \* the value the promise was resolved with
  lastKey           \* class of the key chunk handled last ("none" at start)

\* InteractiveCDKManager and CDKStackService (the manager's main loop, the
\* reconciliation of the inventory and the dispatch of a batch).
VARIABLES
  app,              \* where the manager is
  isRunning,        \* InteractiveCDKManager.isRunning
  stacksLoaded,     \* InteractiveCDKManager.stacksLoaded
  stacks,           \* InteractiveCDKManager.stacks, the stored inventory
  declared,         \* stackInfo: what cdkExecutor.listStacks returned last
  detailedStacks,   \* listCDKStacks: the entries pushed so far
  lookups,          \* the status lookups answered during the refresh in progress
  inFlight,         \* the declared stacks (positions) whose lookup is awaited
  selectedStacks,   \* what the deploy/destroy multi-select resolved with
  calls,            \* executor processes spawned for the menu action in progress
  menuAction,       \* what the main menu resolved with last ("none" before)
  message,          \* the outcome line printed for the menu action
  batchOutcome,     \* how the deploy/destroy process of the menu action ended
  exitCode          \* -1 while the process runs, else its exit code

\* process.stdin and its "data" listeners.
VARIABLES
  listeners,        \* the registered handleKey closures, in order
  handled           \* how many listeners the last chunk was given to

\* main() of dist/index.js: authentication before the manager is started,
\* and the aws-vault command AWSVaultService.executeCommandWithPath runs.
VARIABLES
  authenticated,    \* main: the local `authenticated`
  vaultProfile,     \* argv.vaultProfile was given (--vault-profile)
  child             \* executeCommandWithPath: the last call

sessionVars == <<engine, multiSelect, choices, currentIndex, selectedIndices,
                 selectedItems, searchQuery, isSearching, filteredChoices,
                 screen, rawMode, stdinPaused, pc, result, lastKey>>

appVars == <<app, isRunning, stacksLoaded, stacks, declared, detailedStacks,
             lookups, inFlight, menuAction, selectedStacks, calls, message, batchOutcome,
             exitCode>>

lsnVars == <<listeners, handled>>

mainVars == <<authenticated, vaultProfile, child>>

vars == <<sessionVars, appVars, lsnVars, mainVars>>

NumChoices == Len(choices)
AllChoices == [k \in 1..NumChoices |-> k - 1]

\* array[index] of a JavaScript array of choice objects
At(array, index) ==
  IF index \in 0..(Len(array) - 1) THEN array[index + 1] ELSE Undefined

\* choices.indexOf(choice)
choicesIndexOf(choice) ==
  IF choice \in 0..(NumChoices - 1) THEN choice ELSE -1

NameOf(choice) == choices[choice + 1].name
ValueOf(choice) == choices[choice + 1].value

\* Array.prototype.indexOf on a list of values
RECURSIVE indexOfFrom(_, _, _)
indexOfFrom(list, v, k) ==
  IF k > Len(list) THEN -1
  ELSE IF list[k] = v THEN k - 1
  ELSE indexOfFrom(list, v, k + 1)

indexOf(list, v) == indexOfFrom(list, v, 1)

\* list.splice(start, 1): a negative start counts from the end.
splice1(list, start) ==
  LET from == IF start < 0 THEN Max(Len(list) + start, 0) ELSE Min(start, Len(list))
  IN  SubSeq(list, 1, from) \o SubSeq(list, from + 2, Len(list))

(***************************************************************************)
(* filterChoices                                                           *)
(***************************************************************************)
\* Mutant: the comparison without toLowerCase.
ChoiceMatches_CaseSensitive(choice, query) ==
  \/ includes(NameOf(choice), query)
  \/ includes(ValueOf(choice), query)

ChoiceMatches(choice, query) ==
  \/ includes(toLowerCase(NameOf(choice)), toLowerCase(query))
  \/ includes(toLowerCase(ValueOf(choice)), toLowerCase(query))

filterChoices(query) ==
  IF trim(query) = << >>
  THEN AllChoices
  ELSE SelectSeq(AllChoices, LAMBDA choice : ChoiceMatches(choice, query))

(***************************************************************************)
(* displayChoices                                                          *)
(***************************************************************************)
\* isSelected of one displayed row
IsSelected(indices, choice) == choicesIndexOf(choice) \in indices

\* isCurrent of one displayed row (index is the 0-based row number)
IsCurrent(eng, index, cursor, filtered) ==
  IF eng = "searchable"
  THEN index = cursor /\ cursor < Len(filtered)
  ELSE index = cursor

Checkbox(multi, indices, choice) ==
  IF multi THEN (IF IsSelected(indices, choice) THEN "checked" ELSE "unchecked")
  ELSE "none"

displayChoices(eng, multi, filtered, cursor, indices, items) ==
  [ rows |-> [k \in 1..Len(filtered) |->
                [ marker   |-> IsCurrent(eng, k - 1, cursor, filtered),
                  checkbox |-> Checkbox(multi, indices, filtered[k]),
                  choice   |-> filtered[k] ]],
    selectedCount |-> IF multi THEN Len(items) ELSE -1 ]

(***************************************************************************)
(* Session start                                                           *)
(***************************************************************************)
\* The manager before start() is called.
AppIdle ==
  /\ app = "idle"
  /\ isRunning = FALSE
  /\ stacksLoaded = FALSE
  /\ stacks = << >>
  /\ declared = << >>
  /\ detailedStacks = << >>
  /\ lookups = << >>
  /\ inFlight = {}
  /\ menuAction = "none"
  /\ selectedStacks = << >>
  /\ calls = << >>
  /\ message = "none"
  /\ batchOutcome = "none"
  /\ exitCode = -1

\* No call of executeCommandWithPath is in progress.
NoChild ==
  [spawned |-> FALSE, resolved |-> FALSE, timeout |-> "none",
   closed |-> FALSE, errored |-> FALSE, killed |-> FALSE,
   resolveCalls |-> 0, value |-> "none"]

\* The last call of executeCommandWithPath after a login with aws-vault
\* (`aws-vault export`): closed with code 0, which cleared the timer and
\* resolved the promise.
DoneChild ==
  [spawned |-> TRUE, resolved |-> TRUE, timeout |-> "cleared",
   closed |-> TRUE, errored |-> FALSE, killed |-> FALSE,
   resolveCalls |-> 1, value |-> "success"]

\* main() has constructed the manager: authentication succeeded, with
\* --vault-profile or the vault menu (three aws-vault commands were run) or
\* with credentials (none was).
MainDone ==
  /\ authenticated = TRUE
  /\ vaultProfile \in BOOLEAN
  /\ child \in IF vaultProfile THEN {DoneChild} ELSE {DoneChild, NoChild}

\* stdin before the first session of the manager: the sessions of
\* dist/index.js remove every listener when they end.
ListenersIdle ==
  /\ listeners = << >>
  /\ handled = 0

Init ==
  /\ AppIdle
  /\ ListenersIdle
  /\ MainDone
  /\ engine \in {"searchable", "multi"}
  /\ multiSelect \in BOOLEAN
  /\ engine = "multi" => multiSelect
  /\ choices \in ChoiceLists
  /\ currentIndex = 0
  /\ selectedIndices = {}
  /\ selectedItems = << >>
  /\ searchQuery = << >>
  /\ isSearching = FALSE
  /\ filteredChoices = AllChoices
  /\ screen = displayChoices(engine, multiSelect, AllChoices, 0, {}, << >>)
  /\ rawMode = TRUE
  /\ stdinPaused = FALSE
  /\ pc = "active"
  /\ result = [kind |-> "pending"]
  /\ lastKey = "none"

(***************************************************************************)
(* Pieces shared by the two key handlers                                   *)
(***************************************************************************)
\* Math.max(0, currentIndex - 1)
MoveUpIndex(cursor) == Max(0, cursor - 1)

\* Mutant: MoveDown wraps from the last row to the first.
MoveDownIndex_Wraps(cursor, len) ==
  IF cursor + 1 >= len THEN 0 ELSE cursor + 1

\* Math.min(filteredChoices.length - 1, currentIndex + 1)
MoveDownIndex(cursor, len) == Min(len - 1, cursor + 1)

\* customSearchableSelect: Math.min(currentIndex, Math.max(0, filteredChoices.length - 1))
ClampSearchable(cursor, len) == Min(cursor, Max(0, len - 1))

\* customMultiSelect: Math.min(currentIndex, filteredChoices.length - 1)
ClampMulti(cursor, len) == Min(cursor, len - 1)

\* Mutant: the position in the filtered view taken for the original index.
ActualIndex_ByPosition(filtered, cursor) ==
  IF cursor \in 0..(Len(filtered) - 1) THEN cursor ELSE -1

\* const actualIndex = choices.indexOf(actualChoice)
ActualIndex(filtered, cursor) == choicesIndexOf(At(filtered, cursor))

\* The spacebar branch: the new selectedIndices and selected values, and
\* whether reading actualChoice.value threw (actualChoice undefined).
Toggle(indices, items, filtered, cursor) ==
  LET actualChoice == At(filtered, cursor)
      actualIndex  == ActualIndex(filtered, cursor)
  IN  IF actualIndex \in indices
      THEN [ indices |-> indices \ {actualIndex},
             items   |-> IF actualChoice = Undefined THEN items
                         ELSE splice1(items, indexOf(items, ValueOf(actualChoice))),
             threw   |-> actualChoice = Undefined ]
      ELSE [ indices |-> indices \cup {actualIndex},
             items   |-> IF actualChoice = Undefined THEN items
                         ELSE Append(items, ValueOf(actualChoice)),
             threw   |-> actualChoice = Undefined ]

\* Everything a handler leaves alone unless it says otherwise.
SessionFrame ==
  UNCHANGED <<engine, multiSelect, choices, appVars, lsnVars, mainVars>>

Redraw ==
  screen' = displayChoices(engine, multiSelect, filteredChoices', currentIndex',
                           selectedIndices', selectedItems')


(***************************************************************************)
(* customSearchableSelect.handleKey, one action per branch                 *)
(***************************************************************************)
SearchableActive == engine = "searchable" /\ pc = "active"

\* key === "\u0003": process.exit(0)
SS_CtrlC ==
  /\ SearchableActive
  /\ lastKey' = KeyClass("^C")
  /\ pc' = "exited"
  /\ SessionFrame
  /\ UNCHANGED <<currentIndex, selectedIndices, selectedItems, searchQuery,
                 isSearching, filteredChoices, screen, rawMode, stdinPaused,
                 result>>

SS_Up ==
  /\ SearchableActive
  /\ lastKey' \in KeyClasses(UpKeys)
  /\ currentIndex' = MoveUpIndex(currentIndex)
  /\ UNCHANGED <<selectedIndices, selectedItems, searchQuery, isSearching,
                 filteredChoices, rawMode, stdinPaused, pc, result>>
  /\ SessionFrame
  /\ Redraw

SS_Down ==
  /\ SearchableActive
  /\ lastKey' \in KeyClasses(DownKeys)
  /\ currentIndex' = MoveDownIndex(currentIndex, Len(filteredChoices))
  /\ UNCHANGED <<selectedIndices, selectedItems, searchQuery, isSearching,
                 filteredChoices, rawMode, stdinPaused, pc, result>>
  /\ SessionFrame
  /\ Redraw

\* The spacebar branch of either handler. When actualChoice is undefined the
\* handler throws after selectedIndices was updated; the exception is uncaught
\* and ends the process before displayChoices runs.
SpacebarBranch ==
  LET t == Toggle(selectedIndices, selectedItems, filteredChoices, currentIndex)
  IN  /\ lastKey' = KeyClass(" ")
      /\ selectedIndices' = t.indices
      /\ selectedItems' = t.items
      /\ UNCHANGED <<currentIndex, searchQuery, isSearching, filteredChoices,
                     rawMode, stdinPaused, result>>
      /\ SessionFrame
      /\ IF t.threw
         THEN pc' = "crashed" /\ UNCHANGED screen
         ELSE UNCHANGED pc /\ Redraw

\* key === " " && multiSelect
SS_Space ==
  /\ SearchableActive
  /\ multiSelect
  /\ SpacebarBranch

\* The value the Enter branch of customSearchableSelect resolves with;
\* reading filteredChoices[currentIndex].value throws when that element is
\* undefined.
EnterResult(multi, items, filtered, cursor) ==
  IF multi
  THEN [kind |-> "list", value |-> items]
  ELSE IF Len(filtered) > 0 /\ cursor < Len(filtered)
       THEN IF At(filtered, cursor) = Undefined
            THEN [kind |-> "threw"]
            ELSE [kind |-> "value", value |-> ValueOf(At(filtered, cursor))]
       ELSE [kind |-> "value", value |-> << >>]

\* key === "\r"
SS_Enter ==
  LET r == EnterResult(multiSelect, selectedItems, filteredChoices, currentIndex)
  IN  /\ SearchableActive
      /\ lastKey' = KeyClass("CR")
      /\ rawMode' = FALSE
      /\ stdinPaused' = TRUE
      /\ IF r.kind = "threw"
         THEN pc' = "crashed" /\ UNCHANGED result
         ELSE pc' = "resolved" /\ result' = r
      /\ UNCHANGED <<currentIndex, selectedIndices, selectedItems, searchQuery,
                     isSearching, filteredChoices, screen>>
      /\ SessionFrame

\* key === "\u007f" || key === "\b"
SS_Backspace ==
  /\ SearchableActive
  /\ lastKey' \in KeyClasses(BackspaceKeys)
  /\ searchQuery' = sliceDropLast(searchQuery)
  /\ filteredChoices' = filterChoices(searchQuery')
  /\ currentIndex' = ClampSearchable(currentIndex, Len(filteredChoices'))
  /\ UNCHANGED <<selectedIndices, selectedItems, isSearching, rawMode,
                 stdinPaused, pc, result>>
  /\ SessionFrame
  /\ Redraw

\* key.length === 1 && key >= " " && key <= "~" (the spacebar only when it
\* was not taken by the multi-select branch)
SS_Printable ==
  /\ SearchableActive
  /\ Len(searchQuery) < MaxQuery
  /\ \E key \in PrintableChars :
       /\ ~(key = " " /\ multiSelect)
       /\ lastKey' = KeyClass(key)
       /\ searchQuery' = Append(searchQuery, key)
  /\ filteredChoices' = filterChoices(searchQuery')
  /\ currentIndex' = ClampSearchable(currentIndex, Len(filteredChoices'))
  /\ UNCHANGED <<selectedIndices, selectedItems, isSearching, rawMode,
                 stdinPaused, pc, result>>
  /\ SessionFrame
  /\ Redraw

\* Mutant: a chunk without a branch is an error.
SS_Ignored_Throws ==
  /\ SearchableActive
  /\ lastKey' \in KeyClasses(OtherKeys \cup {"ESC"})
  /\ pc' = "crashed"
  /\ UNCHANGED <<currentIndex, selectedIndices, selectedItems, searchQuery,
                 isSearching, filteredChoices, screen, rawMode, stdinPaused,
                 result>>
  /\ SessionFrame

\* No branch matches: nothing happens.
SS_Ignored ==
  /\ SearchableActive
  /\ lastKey' \in KeyClasses(OtherKeys \cup {"ESC"})
  /\ UNCHANGED <<currentIndex, selectedIndices, selectedItems, searchQuery,
                 isSearching, filteredChoices, screen, rawMode, stdinPaused,
                 pc, result>>
  /\ SessionFrame

(***************************************************************************)
(* customMultiSelect.handleKey, one action per branch                      *)
(***************************************************************************)
MultiActive == engine = "multi" /\ pc = "active"

\* key === "\u0003": process.exit(0)
MS_CtrlC ==
  /\ MultiActive
  /\ lastKey' = KeyClass("^C")
  /\ pc' = "exited"
  /\ SessionFrame
  /\ UNCHANGED <<currentIndex, selectedIndices, selectedItems, searchQuery,
                 isSearching, filteredChoices, screen, rawMode, stdinPaused,
                 result>>

\* key === "/" && !isSearching: the view is not refiltered here.
MS_StartSearch ==
  /\ MultiActive
  /\ ~isSearching
  /\ lastKey' = KeyClass("/")
  /\ isSearching' = TRUE
  /\ searchQuery' = << >>
  /\ UNCHANGED <<currentIndex, selectedIndices, selectedItems,
                 filteredChoices, rawMode, stdinPaused, pc, result>>
  /\ SessionFrame
  /\ Redraw

\* Mutant: Enter or Escape in search mode confirms the session.
MS_SearchExit_Confirms ==
  /\ MultiActive
  /\ isSearching
  /\ lastKey' \in KeyClasses({"CR", "ESC"})
  /\ rawMode' = FALSE
  /\ stdinPaused' = TRUE
  /\ pc' = "resolved"
  /\ result' = [kind |-> "list", value |-> selectedItems]
  /\ UNCHANGED <<currentIndex, selectedIndices, selectedItems, searchQuery,
                 isSearching, filteredChoices, screen>>
  /\ SessionFrame

\* isSearching, key === "\r" || key === "\u001b"
MS_SearchExit ==
  /\ MultiActive
  /\ isSearching
  /\ lastKey' \in KeyClasses({"CR", "ESC"})
  /\ isSearching' = FALSE
  /\ filteredChoices' = filterChoices(searchQuery)
  /\ currentIndex' = ClampMulti(currentIndex, Len(filteredChoices'))
  /\ UNCHANGED <<selectedIndices, selectedItems, searchQuery, rawMode,
                 stdinPaused, pc, result>>
  /\ SessionFrame
  /\ Redraw

\* isSearching, key === "\u007f" || key === "\b"
MS_SearchBackspace ==
  /\ MultiActive
  /\ isSearching
  /\ lastKey' \in KeyClasses(BackspaceKeys)
  /\ searchQuery' = sliceDropLast(searchQuery)
  /\ filteredChoices' = filterChoices(searchQuery')
  /\ currentIndex' = ClampMulti(currentIndex, Len(filteredChoices'))
  /\ UNCHANGED <<selectedIndices, selectedItems, isSearching, rawMode,
                 stdinPaused, pc, result>>
  /\ SessionFrame
  /\ Redraw

\* Mutant: typing a search character drops the selection of hidden items.
MS_SearchPrintable_DropsHidden ==
  /\ MultiActive
  /\ isSearching
  /\ Len(searchQuery) < MaxQuery
  /\ \E key \in PrintableChars :
       /\ lastKey' = KeyClass(key)
       /\ searchQuery' = Append(searchQuery, key)
  /\ filteredChoices' = filterChoices(searchQuery')
  /\ currentIndex' = ClampMulti(currentIndex, Len(filteredChoices'))
  /\ selectedIndices' =
       {i \in selectedIndices :
          \E k \in 1..Len(filteredChoices') : filteredChoices'[k] = i}
  /\ selectedItems' =
       SelectSeq(selectedItems,
                 LAMBDA v : \E i \in selectedIndices' : ValueOf(i) = v)
  /\ UNCHANGED <<isSearching, rawMode, stdinPaused, pc, result>>
  /\ SessionFrame
  /\ Redraw

\* isSearching, printable character (the spacebar and "/" included)
MS_SearchPrintable ==
  /\ MultiActive
  /\ isSearching
  /\ Len(searchQuery) < MaxQuery
  /\ \E key \in PrintableChars :
       /\ lastKey' = KeyClass(key)
       /\ searchQuery' = Append(searchQuery, key)
  /\ filteredChoices' = filterChoices(searchQuery')
  /\ currentIndex' = ClampMulti(currentIndex, Len(filteredChoices'))
  /\ UNCHANGED <<selectedIndices, selectedItems, isSearching, rawMode,
                 stdinPaused, pc, result>>
  /\ SessionFrame
  /\ Redraw

\* isSearching, any other chunk (arrows included): the isSearching branch
\* was taken and none of its cases matched.
MS_SearchIgnored ==
  /\ MultiActive
  /\ isSearching
  /\ lastKey' \in KeyClasses(UpKeys \cup DownKeys \cup OtherKeys)
  /\ UNCHANGED <<currentIndex, selectedIndices, selectedItems, searchQuery,
                 isSearching, filteredChoices, screen, rawMode, stdinPaused,
                 pc, result>>
  /\ SessionFrame

MS_Up ==
  /\ MultiActive
  /\ ~isSearching
  /\ lastKey' \in KeyClasses(UpKeys)
  /\ currentIndex' = MoveUpIndex(currentIndex)
  /\ UNCHANGED <<selectedIndices, selectedItems, searchQuery, isSearching,
                 filteredChoices, rawMode, stdinPaused, pc, result>>
  /\ SessionFrame
  /\ Redraw

MS_Down ==
  /\ MultiActive
  /\ ~isSearching
  /\ lastKey' \in KeyClasses(DownKeys)
  /\ currentIndex' = MoveDownIndex(currentIndex, Len(filteredChoices))
  /\ UNCHANGED <<selectedIndices, selectedItems, searchQuery, isSearching,
                 filteredChoices, rawMode, stdinPaused, pc, result>>
  /\ SessionFrame
  /\ Redraw

\* key === " "
MS_Space ==
  /\ MultiActive
  /\ ~isSearching
  /\ SpacebarBranch

\* key === "\r": resolve(selectedStacks)
MS_Enter ==
  /\ MultiActive
  /\ ~isSearching
  /\ lastKey' = KeyClass("CR")
  /\ rawMode' = FALSE
  /\ stdinPaused' = TRUE
  /\ pc' = "resolved"
  /\ result' = [kind |-> "list", value |-> selectedItems]
  /\ UNCHANGED <<currentIndex, selectedIndices, selectedItems, searchQuery,
                 isSearching, filteredChoices, screen>>
  /\ SessionFrame

\* Browsing, no branch matches: backspace, escape, letters, other chunks.
MS_Ignored ==
  /\ MultiActive
  /\ ~isSearching
  /\ lastKey' \in KeyClasses(BackspaceKeys \cup {"ESC"} \cup OtherKeys
                                \cup (PrintableChars \ {" ", "/"}))
  /\ UNCHANGED <<currentIndex, selectedIndices, selectedItems, searchQuery,
                 isSearching, filteredChoices, screen, rawMode, stdinPaused,
                 pc, result>>
  /\ SessionFrame

Next ==
  \/ SS_CtrlC
  \/ SS_Up
  \/ SS_Down
  \/ SS_Space
  \/ SS_Enter
  \/ SS_Backspace
  \/ SS_Printable
  \/ SS_Ignored
  \/ MS_CtrlC
  \/ MS_StartSearch
  \/ MS_SearchExit
  \/ MS_SearchBackspace
  \/ MS_SearchPrintable
  \/ MS_SearchIgnored
  \/ MS_Up
  \/ MS_Down
  \/ MS_Space
  \/ MS_Enter
  \/ MS_Ignored

Spec == Init /\ [][Next]_vars

(***************************************************************************)
(* The declared-stack listing: CDKCommandExecutor.listStacks               *)
(*                                                                         *)
(* The output of `cdk list` is a sequence of lines (output.split("\n"));   *)
(* the empty sequence is the empty output.                                 *)
(***************************************************************************)
\* String.prototype.startsWith.
startsWith(s, p) == Len(p) <= Len(s) /\ SubSeq(s, 1, Len(p)) = p

\* The character classes of /^[a-zA-Z0-9-_/()\s]+$/ and /[a-zA-Z]/.
Letters ==
  {"a", "b", "c", "d", "e", "f", "g", "h", "i", "j", "k", "l", "m",
   "n", "o", "p", "q", "r", "s", "t", "u", "v", "w", "x", "y", "z",
   "A", "B", "C", "D", "E", "F", "G", "H", "I", "J", "K", "L", "M",
   "N", "O", "P", "Q", "R", "S", "T", "U", "V", "W", "X", "Y", "Z"}

Digits == {"0", "1", "2", "3", "4", "5", "6", "7", "8", "9"}

IsStackNameChar(ch) ==
  ch \in Letters \cup Digits \cup {"-", "_", "/", "(", ")"} \/ IsWhitespace(ch)

\* The prefixes and fragments by which listStacks recognises build output
\* (those made of stack-name characters; every other one of the source
\* holds a character that IsStackNameChar rejects).
NoisePrefixes ==
  { <<"N", "X", " ", " ", " ", "S", "u", "c", "c", "e", "s", "s", "f", "u",
      "l", "l", "y", " ", "r", "a", "n", " ", "t", "a", "r", "g", "e", "t">>,
    <<"C", "D", "K">>,
    <<"n", "p", "m">>,
    <<"y", "a", "r", "n">>,
    <<"p", "n", "p", "m">> }

NoiseFragments ==
  { <<"d", "e", "p", "r", "e", "c", "a", "t", "e", "d">>,
    <<"T", "h", "i", "s", " ", "A", "P", "I", " ", "w", "i", "l", "l", " ",
      "b", "e", " ", "r", "e", "m", "o", "v", "e", "d">>,
    <<"I", "n", "s", "t", "a", "l", "l", "i", "n", "g">>,
    <<"B", "u", "i", "l", "d", "i", "n", "g">>,
    <<"S", "y", "n", "t", "h", "e", "s", "i", "z", "i", "n", "g">> }

\* The filter of listStacks: does this line of the output name a stack?
IsStackLine(line) ==
  LET trimmed == trim(line) IN
    /\ trimmed # << >>
    /\ \A p \in NoisePrefixes : ~startsWith(trimmed, p)
    /\ \A f \in NoiseFragments : ~includes(trimmed, f)
    /\ \A k \in 1..Len(trimmed) : IsStackNameChar(trimmed[k])
    /\ \E k \in 1..Len(trimmed) : trimmed[k] \in Letters

\* trimmed.match(/\(([^)]+)\)$/): the text of the parenthesis that ends the
\* line, or the empty string (null) when the line does not end with one.
cfStackNameMatch(s) ==
  LET n == Len(s)
      Opens == { p \in 1..n : /\ s[p] = "("
                              /\ s[n] = ")"
                              /\ p + 1 <= n - 1
                              /\ \A k \in (p + 1)..(n - 1) : s[k] # ")" }
  IN IF Opens = {} THEN << >>
     ELSE LET p == CHOOSE x \in Opens : \A y \in Opens : x <= y
          IN SubSeq(s, p + 1, n - 1)

\* s.replace(/\s*\([^)]*\)\s*$/, ""): drop a parenthesis that ends the
\* string, with the white space around it.
removeParenthetical(s) ==
  LET n == Len(s)
      Opens == { p \in 1..n :
                   /\ s[p] = "("
                   /\ \E q \in (p + 1)..n :
                        /\ s[q] = ")"
                        /\ \A k \in (p + 1)..(q - 1) : s[k] # ")"
                        /\ \A k \in (q + 1)..n : IsWhitespace(s[k]) }
  IN IF Opens = {} THEN s
     ELSE LET p == CHOOSE x \in Opens : \A y \in Opens : x <= y
          IN trimEnd(SubSeq(s, 1, p - 1))

\* cleanLine.split("/").pop(): what follows the last slash.
afterLastSlash(s) ==
  LET Slashes == { k \in 1..Len(s) : s[k] = "/" } IN
    IF Slashes = {} THEN s
    ELSE LET k == CHOOSE x \in Slashes : \A y \in Slashes : y <= x
         IN SubSeq(s, k + 1, Len(s))

stackInfoOf_NamesWholePath(line) ==
  LET trimmed   == trim(line)
      cfName    == cfStackNameMatch(trimmed)
      cleanLine == removeParenthetical(trimmed)
  IN [displayName |-> trim(cleanLine),
      fullName    |-> trimmed,
      cfStackName |-> cleanLine]

\* The declared stack listStacks makes of one line.
stackInfoOf(line) ==
  LET trimmed   == trim(line)
      cfName    == cfStackNameMatch(trimmed)
      cleanLine == removeParenthetical(trimmed)
      last      == afterLastSlash(cleanLine)
      displayName == IF last # << >> THEN last ELSE cleanLine
  IN [displayName |-> trim(displayName),
      fullName    |-> trimmed,
      cfStackName |-> IF cfName # << >> THEN cfName ELSE cleanLine]

\* The result of executeCommand(["list"]): success is `exit code 0` (false
\* for a non-zero exit code and for a spawn error), output is the trimmed
\* standard output.
LineA == <<"A">>
LineB == <<"S", "/", "B", " ", "(", "b", ")">>
LineC == <<" ", "C", " ", "(", "c", ")">>
LineNpm == <<"n", "p", "m", " ", "x">>
LineBang == <<"!">>
LineEmptyParens == <<"A", " ", "(", ")">>
LineSlash == <<"S", "/">>
LineSpaced == <<"S", "/", " ", "B">>

ListOutputs ==
  { << >>,
    <<LineNpm>>,
    <<LineA, LineA>>,
    <<LineA, LineB>>,
    <<LineEmptyParens, LineSlash>>,
    <<LineSpaced>>,
    <<LineBang, LineA, LineB, LineC>> }

ListResults ==
  [success : BOOLEAN, output : ListOutputs]

listStacks_ReturnsNothingOnEmptyOutput(res) ==
  IF ~res.success
    THEN [exits |-> TRUE, stackInfo |-> << >>]
    ELSE LET lines == SelectSeq(res.output, IsStackLine)
         IN [exits |-> FALSE,
             stackInfo |-> [k \in 1..Len(lines) |-> stackInfoOf(lines[k])]]

\* listStacks: leaves the process (process.exit(1)) when the command failed
\* or printed nothing, and otherwise returns the declared stacks.
listStacks(res) ==
  IF ~res.success \/ res.output = << >>
    THEN [exits |-> TRUE, stackInfo |-> << >>]
    ELSE LET lines == SelectSeq(res.output, IsStackLine)
         IN [exits |-> FALSE,
             stackInfo |-> [k \in 1..Len(lines) |-> stackInfoOf(lines[k])]]

(***************************************************************************)
(* The reconciliation: CDKStackService.listCDKStacks and getStackDetails   *)
(***************************************************************************)
\* What cloudFormationClient.send(DescribeStacksCommand) does for one
\* backing identifier: it answers with the stack and its status, it reports
\* that no such stack exists, or it fails (permission, network, throttling).
LookupResponses ==
  { [kind |-> "found", status |-> "CREATE_COMPLETE"],
    [kind |-> "found", status |-> "ROLLBACK_COMPLETE"],
    [kind |-> "notFound", status |-> ""],
    [kind |-> "error", status |-> ""] }

\* An absent stackId (undefined) is the empty string.
NoStackId == << >>

StackIdOf(cfStackName) == <<"arn:">> \o cfStackName

\* getStackDetails returns null for a declared stack without details.
Null == [stackName |-> << >>, stackId |-> NoStackId, stackStatus |-> "null"]

\* getStackDetails: the entry of a stack that was found; every other
\* response, a thrown error included, is caught and gives null.
getStackDetails(stackName, cfStackName, response) ==
  IF response.kind = "found"
    THEN [stackName |-> stackName, stackId |-> StackIdOf(cfStackName),
          stackStatus |-> response.status]
    ELSE Null

\* One turn of the loop of listCDKStacks: the entry pushed for `stack`.
\* getStackDetails does not throw, so the catch branch of the loop (status
\* "UNKNOWN") is never taken.
ReconciledEntry_DropsName(stack, response) ==
  LET stackDetails == getStackDetails(stack.cfStackName, stack.cfStackName, response) IN
    IF stackDetails # Null THEN stackDetails
    ELSE [stackName |-> stack.fullName, stackId |-> NoStackId,
          stackStatus |-> "NOT_DEPLOYED"]

ReconciledEntry(stack, response) ==
  LET stackDetails == getStackDetails(stack.fullName, stack.cfStackName, response) IN
    IF stackDetails # Null THEN stackDetails
    ELSE [stackName |-> stack.fullName, stackId |-> NoStackId,
          stackStatus |-> "NOT_DEPLOYED"]

(***************************************************************************)
(* The dispatch of a batch: showDeployMenu, showDestroyMenu,               *)
(* CDKStackService.deployStack/destroyStack and the CDKCommandExecutor     *)
(***************************************************************************)
\* The values of the main menu's choices.
MenuValues == {"deploy", "destroy", "refresh", "exit"}

\* What a multi-select over choices with these values (one per choice, in
\* the order of the choices) can resolve with: the selected choices are
\* recorded by index and the value of each is pushed, so the result has one
\* entry per selected choice, in the order of the toggles; two choices with
\* the same value give that value twice.
Selections(values) ==
  LET picks == UNION { { p \in [1..n -> 1..Len(values)] :
                           \A i, j \in 1..n : p[i] = p[j] => i = j }
                       : n \in 0..Len(values) }
  IN { [k \in 1..Len(p) |-> values[p[k]]] : p \in picks }

\* The values offered by the deploy menu: every stack of the inventory.
DeployChoiceValues == [k \in 1..Len(stacks) |-> stacks[k].stackName]

deployedCount_CompleteOnly(list) ==
  Len(SelectSeq(list, LAMBDA s : s.stackStatus = "CREATE_COMPLETE"))

\* deployedCount of the summaries of listCDKStacks (over detailedStacks)
\* and of showMainMenu and showDeployMenu (over this.stacks):
\* filter(stack => stack.stackId !== undefined).length.
deployedCount(list) ==
  Len(SelectSeq(list, LAMBDA s : s.stackId # NoStackId))

\* undeployedCount of the summaries: length - deployedCount.
undeployedCount(list) == Len(list) - deployedCount(list)

deployedStacks_All == stacks

\* The stacks the destroy menu offers: deployedStacks.
deployedStacks == SelectSeq(stacks, LAMBDA s : s.stackId # NoStackId)

DestroyChoiceValues ==
  [k \in 1..Len(deployedStacks) |-> deployedStacks[k].stackName]

\* cleanStackNames of showDeployMenu and showDestroyMenu.
cleanStackNames(selected) ==
  [k \in 1..Len(selected) |-> removeParenthetical(selected[k])]

\* One process spawned by the executor, with how it ended.
Call(verb, names, success, output) ==
  [verb |-> verb, names |-> names, success |-> success, output |-> output]

\* The processes CDKCommandExecutor.deployStack (verb "deploy") and
\* destroyStack (verb "destroy") spawn for a batch: one, whose arguments
\* hold every name.
batchCalls_OnePerStack(verb, names, success) ==
  [k \in 1..Len(names) |-> Call(verb, <<names[k]>>, success, << >>)]

batchCalls(verb, names, success) ==
  << Call(verb, names, success, << >>) >>

\* How the process spawned by executeCommandWithRealTimeOutput can end: a
\* "close" event with exit code 0 or with another code, or an "error"
\* event when it could not be spawned.
ProcessOutcomes == {"code 0", "code 1", "error"}

commandSuccess_ErrorOnly(outcome) == outcome # "error"

\* The `success` executeCommandWithRealTimeOutput resolves with, which
\* CDKCommandExecutor.deployStack/destroyStack and then
\* CDKStackService.deployStack/destroyStack return: `code === 0` on
\* "close", false on "error".
commandSuccess(outcome) == outcome = "code 0"

batchMessage_AlwaysSuccess(verb, success) ==
  IF verb = "deploy" THEN "Successfully deployed" ELSE "Successfully destroyed"

\* The line showDeployMenu/showDestroyMenu prints for the batch.
batchMessage(verb, success) ==
  CASE verb = "deploy" /\ success -> "Successfully deployed"
    [] verb = "deploy" /\ ~success -> "Failed to deploy stacks"
    [] verb = "destroy" /\ success -> "Successfully destroyed"
    [] OTHER -> "Failed to destroy stacks"

(***************************************************************************)
(* The manager: InteractiveCDKManager.start and what it calls              *)
(***************************************************************************)
\* No selection session of the engine model is running.
SessionIdle ==
  /\ engine = "searchable"
  /\ multiSelect = FALSE
  /\ choices = << >>
  /\ currentIndex = 0
  /\ selectedIndices = {}
  /\ selectedItems = << >>
  /\ searchQuery = << >>
  /\ isSearching = FALSE
  /\ filteredChoices = << >>
  /\ screen = << >>
  /\ rawMode = FALSE
  /\ stdinPaused = TRUE
  /\ pc = "idle"
  /\ result = [kind |-> "pending"]
  /\ lastKey = "none"

AppInit == AppIdle /\ SessionIdle /\ ListenersIdle /\ MainDone

AppFrame == UNCHANGED <<sessionVars, lsnVars, mainVars>>

\* start(): isRunning = true, then the loop.
start ==
  /\ app = "idle"
  /\ isRunning' = TRUE
  /\ app' = "loop"
  /\ UNCHANGED <<stacksLoaded, stacks, declared, detailedStacks, lookups,
                 selectedStacks, calls, message, exitCode>>
  /\ UNCHANGED batchOutcome
  /\ UNCHANGED inFlight
  /\ UNCHANGED menuAction
  /\ AppFrame

\* start(): the loop ends when isRunning is false.
start_Returns ==
  /\ app = "loop"
  /\ ~isRunning
  /\ app' = "returned"
  /\ UNCHANGED <<isRunning, stacksLoaded, stacks, declared, detailedStacks,
                 lookups, selectedStacks, calls, message, exitCode>>
  /\ UNCHANGED batchOutcome
  /\ UNCHANGED inFlight
  /\ UNCHANGED menuAction
  /\ AppFrame

\* Mutant: every display of the main menu refreshes the inventory.
showMainMenu_Refresh_Always ==
  /\ app = "loop"
  /\ isRunning
  /\ app' = "listing"
  /\ detailedStacks' = << >>
  /\ lookups' = << >>
  /\ calls' = << >>
  /\ UNCHANGED <<isRunning, stacksLoaded, stacks, declared, selectedStacks,
                 message, exitCode, batchOutcome, inFlight, menuAction>>
  /\ AppFrame

\* showMainMenu, first call: refreshStacks() before the menu is drawn.
showMainMenu_Refresh ==
  /\ app = "loop"
  /\ isRunning
  /\ ~stacksLoaded
  /\ app' = "listing"
  /\ detailedStacks' = << >>
  /\ lookups' = << >>
  /\ calls' = << >>
  /\ UNCHANGED <<isRunning, stacksLoaded, stacks, declared, selectedStacks,
                 message, exitCode>>
  /\ UNCHANGED batchOutcome
  /\ UNCHANGED inFlight
  /\ UNCHANGED menuAction
  /\ AppFrame

\* showMainMenu with the inventory loaded: the menu is drawn and its
\* selection session starts.
showMainMenu_Select ==
  /\ app = "loop"
  /\ isRunning
  /\ stacksLoaded
  /\ app' = "mainMenu"
  /\ selectedStacks' = << >>
  /\ calls' = << >>
  /\ message' = "none"
  /\ batchOutcome' = "none"
  /\ menuAction' = "none"
  /\ UNCHANGED <<isRunning, stacksLoaded, stacks, declared, detailedStacks,
                 lookups, exitCode>>
  /\ UNCHANGED inFlight
  /\ AppFrame

\* listStacks when `cdk list` failed or printed nothing: process.exit(1).
listStacks_Exits ==
  /\ app = "listing"
  /\ \E r \in ListResults :
       /\ listStacks(r).exits
       /\ calls' = Append(calls, Call("list", << >>, r.success, r.output))
  /\ exitCode' = 1
  /\ app' = "exited"
  /\ UNCHANGED <<isRunning, stacksLoaded, stacks, declared, detailedStacks,
                 lookups, selectedStacks, message>>
  /\ UNCHANGED batchOutcome
  /\ UNCHANGED inFlight
  /\ UNCHANGED menuAction
  /\ AppFrame

\* An exception inside the try of listCDKStacks before its loop (spawn
\* throwing for `cdk list`, for one): no process was run, the catch of
\* listCDKStacks prints its failure line and returns [], and refreshStacks
\* stores what listCDKStacks returned.
listCDKStacks_Catch ==
  /\ app = "listing"
  /\ message' = "Failed to list CDK stacks"
  /\ declared' = << >>
  /\ stacks' = << >>
  /\ stacksLoaded' = TRUE
  /\ app' = "loop"
  /\ UNCHANGED <<isRunning, detailedStacks, lookups, inFlight, menuAction,
                 selectedStacks, calls, batchOutcome, exitCode>>
  /\ AppFrame

\* listStacks returns the declared stacks to listCDKStacks, which returns
\* [] at once when there is none and otherwise starts its loop.
\* refreshStacks stores what listCDKStacks returns, and showMainMenu sets
\* stacksLoaded after refreshStacks.
listStacks_Returns ==
  /\ app = "listing"
  /\ \E r \in ListResults :
       /\ ~listStacks(r).exits
       /\ calls' = Append(calls, Call("list", << >>, r.success, r.output))
       /\ declared' = listStacks(r).stackInfo
  /\ IF declared' = << >>
       THEN /\ stacks' = << >>
            /\ stacksLoaded' = TRUE
            /\ app' = "loop"
       ELSE /\ app' = "lookup"
            /\ UNCHANGED <<stacks, stacksLoaded>>
  /\ UNCHANGED <<isRunning, detailedStacks, lookups, selectedStacks, message,
                 exitCode>>
  /\ UNCHANGED batchOutcome
  /\ UNCHANGED inFlight
  /\ UNCHANGED menuAction
  /\ AppFrame

\* Mutant: the lookups are sent without awaiting the one before.
getStackDetails_Send_NoAwait ==
  /\ app = "lookup"
  /\ Len(detailedStacks) + Cardinality(inFlight) < Len(declared)
  /\ inFlight' =
       inFlight \cup {Len(detailedStacks) + Cardinality(inFlight) + 1}
  /\ UNCHANGED <<app, isRunning, stacksLoaded, stacks, declared,
                 detailedStacks, lookups, selectedStacks, calls, message,
                 batchOutcome, exitCode>>
  /\ UNCHANGED menuAction
  /\ AppFrame

\* One turn of the loop of listCDKStacks, first half: getStackDetails is
\* called for the next declared stack and awaited.  The loop is at this
\* statement only when the turn before is over, so no other lookup is
\* awaited.
getStackDetails_Send ==
  /\ app = "lookup"
  /\ inFlight = {}
  /\ inFlight' = {Len(detailedStacks) + 1}
  /\ UNCHANGED <<app, isRunning, stacksLoaded, stacks, declared,
                 detailedStacks, lookups, selectedStacks, calls, message,
                 batchOutcome, exitCode>>
  /\ UNCHANGED menuAction
  /\ AppFrame

\* One turn of the loop of listCDKStacks, second half: the awaited lookup
\* answers and the entry is pushed.  After the last turn listCDKStacks
\* returns detailedStacks.
listCDKStacks_Lookup_AbortsOnError ==
  /\ app = "lookup"
  /\ Len(detailedStacks) + 1 \in inFlight
  /\ inFlight' = inFlight \ {Len(detailedStacks) + 1}
  /\ LET stack == declared[Len(detailedStacks) + 1] IN
     \E response \in LookupResponses :
       /\ lookups' = Append(lookups, [cfStackName |-> stack.cfStackName,
                                      response |-> response])
       /\ detailedStacks' =
            IF response.kind = "error" THEN << >>
            ELSE Append(detailedStacks, ReconciledEntry(stack, response))
       /\ IF response.kind = "error" \/ Len(detailedStacks') = Len(declared)
            THEN /\ stacks' = detailedStacks'
                 /\ stacksLoaded' = TRUE
                 /\ app' = "loop"
            ELSE /\ app' = "lookup"
                 /\ UNCHANGED <<stacks, stacksLoaded>>
  /\ UNCHANGED <<isRunning, declared, selectedStacks, calls, message,
                 exitCode>>
  /\ UNCHANGED batchOutcome
  /\ UNCHANGED menuAction
  /\ AppFrame

listCDKStacks_Lookup ==
  /\ app = "lookup"
  /\ Len(detailedStacks) + 1 \in inFlight
  /\ inFlight' = inFlight \ {Len(detailedStacks) + 1}
  /\ LET stack == declared[Len(detailedStacks) + 1] IN
     \E response \in LookupResponses :
       /\ lookups' = Append(lookups, [cfStackName |-> stack.cfStackName,
                                      response |-> response])
       /\ detailedStacks' =
            Append(detailedStacks, ReconciledEntry(stack, response))
       /\ IF Len(detailedStacks') = Len(declared)
            THEN /\ stacks' = detailedStacks'
                 /\ stacksLoaded' = TRUE
                 /\ app' = "loop"
            ELSE /\ app' = "lookup"
                 /\ UNCHANGED <<stacks, stacksLoaded>>
  /\ UNCHANGED <<isRunning, declared, selectedStacks, calls, message,
                 exitCode>>
  /\ UNCHANGED batchOutcome
  /\ UNCHANGED menuAction
  /\ AppFrame

\* handleMainMenuAction: where the manager goes for an action.  The deploy
\* and destroy menus start a selection session only when they have a stack
\* to offer, and otherwise only wait for Enter.
handleMainMenuAction(action) ==
  CASE action = "deploy" ->
         IF Len(stacks) = 0 THEN "prompt" ELSE "deploySelect"
    [] action = "destroy" ->
         IF Len(deployedStacks) = 0 THEN "prompt" ELSE "destroySelect"
    [] action = "refresh" -> "listing"
    [] action = "exit" -> "loop"
    [] OTHER -> "loop"

\* Mutant: an action the switch does not know stops the manager.
mainMenu_Confirm_StopsOnUnknown ==
  /\ app = "mainMenu"
  /\ \E action \in MenuValues \cup {""} :
       /\ menuAction' = action
       /\ app' = handleMainMenuAction(action)
       /\ isRunning' = (action \in {"deploy", "destroy", "refresh"})
       /\ IF action = "refresh"
            THEN detailedStacks' = << >> /\ lookups' = << >>
            ELSE UNCHANGED <<detailedStacks, lookups>>
  /\ UNCHANGED <<stacksLoaded, stacks, declared, selectedStacks, calls,
                 message, exitCode>>
  /\ UNCHANGED batchOutcome
  /\ UNCHANGED inFlight
  /\ AppFrame

\* The main menu resolves with the value of one of its choices, or with ""
\* when Enter is pressed on an empty filtered view.
mainMenu_Confirm ==
  /\ app = "mainMenu"
  /\ \E action \in MenuValues \cup {""} :
       /\ menuAction' = action
       /\ app' = handleMainMenuAction(action)
       /\ isRunning' = (action # "exit")
       /\ IF action = "refresh"
            THEN detailedStacks' = << >> /\ lookups' = << >>
            ELSE UNCHANGED <<detailedStacks, lookups>>
  /\ UNCHANGED <<stacksLoaded, stacks, declared, selectedStacks, calls,
                 message, exitCode>>
  /\ UNCHANGED batchOutcome
  /\ UNCHANGED inFlight
  /\ AppFrame

\* A selection session of the manager is running.
InSession == app \in {"mainMenu", "deploySelect", "destroySelect"}

\* Ctrl-C in a selection session: process.exit(0).
session_CtrlC ==
  /\ InSession
  /\ exitCode' = 0
  /\ app' = "exited"
  /\ UNCHANGED <<isRunning, stacksLoaded, stacks, declared, detailedStacks,
                 lookups, selectedStacks, calls, message>>
  /\ UNCHANGED batchOutcome
  /\ UNCHANGED inFlight
  /\ UNCHANGED menuAction
  /\ AppFrame

\* A key handler of a selection session throws: the uncaughtException
\* handler of index.js ends the process with code 1.
session_Throws ==
  /\ InSession
  /\ exitCode' = 1
  /\ app' = "exited"
  /\ UNCHANGED <<isRunning, stacksLoaded, stacks, declared, detailedStacks,
                 lookups, selectedStacks, calls, message>>
  /\ UNCHANGED batchOutcome
  /\ UNCHANGED inFlight
  /\ UNCHANGED menuAction
  /\ AppFrame

\* showDeployMenu: the multi-select over the stacks of the inventory
\* resolves with the selection; the menu leaves raw mode, pauses stdin and
\* awaits its 100 ms timer.  (A process that is ended by a signal during a
\* wait takes no further step.)
showDeployMenu_Selected ==
  /\ app = "deploySelect"
  /\ \E selected \in Selections(DeployChoiceValues) :
       selectedStacks' = selected
  /\ app' = "deployWait"
  /\ UNCHANGED <<isRunning, stacksLoaded, stacks, declared, detailedStacks,
                 lookups, calls, message, exitCode>>
  /\ UNCHANGED batchOutcome
  /\ UNCHANGED inFlight
  /\ UNCHANGED menuAction
  /\ AppFrame

\* showDestroyMenu: the multi-select over the deployed stacks resolves with
\* the selection; the menu awaits its 100 ms timer.
showDestroyMenu_Selected ==
  /\ app = "destroySelect"
  /\ \E selected \in Selections(DestroyChoiceValues) :
       selectedStacks' = selected
  /\ app' = "destroyWait"
  /\ UNCHANGED <<isRunning, stacksLoaded, stacks, declared, detailedStacks,
                 lookups, calls, message, exitCode>>
  /\ UNCHANGED batchOutcome
  /\ UNCHANGED inFlight
  /\ UNCHANGED menuAction
  /\ AppFrame

\* Mutant: an empty selection is dispatched like any other.
showDeployMenu_Confirm_DispatchesEmpty ==
  /\ app = "deployWait"
  /\ app' = "deployCheck"
  /\ UNCHANGED <<isRunning, stacksLoaded, stacks, declared, detailedStacks,
                 lookups, inFlight, selectedStacks, calls, message,
                 batchOutcome, exitCode>>
  /\ UNCHANGED menuAction
  /\ AppFrame

\* showDeployMenu after the timer: with nothing selected the menu prints
\* "No stacks selected." and returns; otherwise deployStack of the service
\* is called with the clean names.
showDeployMenu_Confirm ==
  /\ app = "deployWait"
  /\ IF Len(selectedStacks) = 0
       THEN app' = "loop" /\ message' = "No stacks selected."
       ELSE app' = "deployCheck" /\ UNCHANGED message
  /\ UNCHANGED <<isRunning, stacksLoaded, stacks, declared, detailedStacks,
                 lookups, selectedStacks, calls, exitCode>>
  /\ UNCHANGED batchOutcome
  /\ UNCHANGED inFlight
  /\ UNCHANGED menuAction
  /\ AppFrame

\* showDestroyMenu after the timer: with nothing selected the menu prints
\* "No stacks selected." and returns; otherwise destroyStack of the service
\* is called with the clean names.
showDestroyMenu_Confirm ==
  /\ app = "destroyWait"
  /\ IF Len(selectedStacks) = 0
       THEN app' = "loop" /\ message' = "No stacks selected."
       ELSE app' = "destroyCheck" /\ UNCHANGED message
  /\ UNCHANGED <<isRunning, stacksLoaded, stacks, declared, detailedStacks,
                 lookups, selectedStacks, calls, exitCode>>
  /\ UNCHANGED batchOutcome
  /\ UNCHANGED inFlight
  /\ UNCHANGED menuAction
  /\ AppFrame

\* CDKStackService.deployStack, first step: checkCDKInstalled runs
\* `cdk --version`; without the CLI the service returns false and the menu
\* prints its failure line.  When spawn throws there is no process, the
\* catch of checkCDKInstalled returns false.
deployStack_CheckCDK ==
  /\ app = "deployCheck"
  /\ \/ \E cdkInstalled \in BOOLEAN :
          /\ calls' = Append(calls,
                             Call("--version", << >>, cdkInstalled, << >>))
          /\ IF cdkInstalled
               THEN app' = "deployRun" /\ UNCHANGED message
               ELSE app' = "prompt" /\ message' = batchMessage("deploy", FALSE)
     \/ /\ UNCHANGED calls
        /\ app' = "prompt"
        /\ message' = batchMessage("deploy", FALSE)
  /\ UNCHANGED <<isRunning, stacksLoaded, stacks, declared, detailedStacks,
                 lookups, selectedStacks, exitCode>>
  /\ UNCHANGED batchOutcome
  /\ UNCHANGED inFlight
  /\ UNCHANGED menuAction
  /\ AppFrame

\* CDKStackService.destroyStack, first step: checkCDKInstalled runs
\* `cdk --version`; without the CLI the service returns false and the menu
\* prints its failure line.  When spawn throws there is no process, the
\* catch of checkCDKInstalled returns false.
destroyStack_CheckCDK ==
  /\ app = "destroyCheck"
  /\ \/ \E cdkInstalled \in BOOLEAN :
          /\ calls' = Append(calls,
                             Call("--version", << >>, cdkInstalled, << >>))
          /\ IF cdkInstalled
               THEN app' = "destroyRun" /\ UNCHANGED message
               ELSE app' = "prompt" /\ message' = batchMessage("destroy", FALSE)
     \/ /\ UNCHANGED calls
        /\ app' = "prompt"
        /\ message' = batchMessage("destroy", FALSE)
  /\ UNCHANGED <<isRunning, stacksLoaded, stacks, declared, detailedStacks,
                 lookups, selectedStacks, exitCode>>
  /\ UNCHANGED batchOutcome
  /\ UNCHANGED inFlight
  /\ UNCHANGED menuAction
  /\ AppFrame

\* CDKCommandExecutor.deployStack: the batch is run, success is `exit
\* code 0` (false for a spawn error), and the menu prints the outcome.
\* When spawn throws there is no process: the promise rejects, the catch
\* of the executor's deployStack returns false.
deployStack_Run ==
  /\ app = "deployRun"
  /\ \/ \E outcome \in ProcessOutcomes :
          /\ calls' = calls \o batchCalls("deploy",
                                          cleanStackNames(selectedStacks),
                                          commandSuccess(outcome))
          /\ batchOutcome' = outcome
          /\ message' = batchMessage("deploy", commandSuccess(outcome))
     \/ /\ UNCHANGED <<calls, batchOutcome>>
        /\ message' = batchMessage("deploy", FALSE)
  /\ app' = "prompt"
  /\ UNCHANGED <<isRunning, stacksLoaded, stacks, declared, detailedStacks,
                 lookups, selectedStacks, exitCode>>
  /\ UNCHANGED inFlight
  /\ UNCHANGED menuAction
  /\ AppFrame

\* CDKCommandExecutor.destroyStack: the batch is run, success is `exit
\* code 0` (false for a spawn error), and the menu prints the outcome.
\* When spawn throws there is no process: the promise rejects, the catch
\* of the executor's destroyStack returns false.
destroyStack_Run ==
  /\ app = "destroyRun"
  /\ \/ \E outcome \in ProcessOutcomes :
          /\ calls' = calls \o batchCalls("destroy",
                                          cleanStackNames(selectedStacks),
                                          commandSuccess(outcome))
          /\ batchOutcome' = outcome
          /\ message' = batchMessage("destroy", commandSuccess(outcome))
     \/ /\ UNCHANGED <<calls, batchOutcome>>
        /\ message' = batchMessage("destroy", FALSE)
  /\ app' = "prompt"
  /\ UNCHANGED <<isRunning, stacksLoaded, stacks, declared, detailedStacks,
                 lookups, selectedStacks, exitCode>>
  /\ UNCHANGED inFlight
  /\ UNCHANGED menuAction
  /\ AppFrame

\* "Press Enter to go back to main menu" is answered: the menu returns.
\* (The prompt of a menu with nothing to offer and the one that follows a
\* batch are the same position: each is the last statement of its menu.)
prompt_Back ==
  /\ app = "prompt"
  /\ app' = "loop"
  /\ UNCHANGED <<isRunning, stacksLoaded, stacks, declared, detailedStacks,
                 lookups, selectedStacks, calls, message, exitCode>>
  /\ UNCHANGED batchOutcome
  /\ UNCHANGED inFlight
  /\ UNCHANGED menuAction
  /\ AppFrame

\* main(): `await interactiveManager.start()` has returned and main()
\* returns without calling process.exit; the process ends by itself with
\* exit code 0 once nothing is pending (stdin is paused; a timer that
\* verifyConnection left behind is waited for in the position "returned").
main_Returns ==
  /\ app = "returned"
  /\ exitCode = -1
  /\ exitCode' = 0
  /\ app' = "exited"
  /\ UNCHANGED <<isRunning, stacksLoaded, stacks, declared, detailedStacks,
                 lookups, selectedStacks, calls, message>>
  /\ UNCHANGED batchOutcome
  /\ UNCHANGED inFlight
  /\ UNCHANGED menuAction
  /\ AppFrame

\* Ctrl-C while the prompt is shown: the key handlers of the finished
\* selection sessions are still listeners of stdin (at least the one of the
\* main menu) and the first of them runs process.exit(0).
prompt_CtrlC ==
  /\ app = "prompt"
  /\ exitCode' = 0
  /\ app' = "exited"
  /\ UNCHANGED <<isRunning, stacksLoaded, stacks, declared, detailedStacks,
                 lookups, selectedStacks, calls, message>>
  /\ UNCHANGED batchOutcome
  /\ UNCHANGED inFlight
  /\ UNCHANGED menuAction
  /\ AppFrame

\* A chunk typed at the prompt makes a key handler of a finished selection
\* session throw (Enter with its cursor at -1): the uncaughtException
\* handler of index.js ends the process with code 1.
prompt_Throws ==
  /\ app = "prompt"
  /\ exitCode' = 1
  /\ app' = "exited"
  /\ UNCHANGED <<isRunning, stacksLoaded, stacks, declared, detailedStacks,
                 lookups, selectedStacks, calls, message>>
  /\ UNCHANGED batchOutcome
  /\ UNCHANGED inFlight
  /\ UNCHANGED menuAction
  /\ AppFrame

\* inquirer.prompt rejects: no menu and neither showMainMenu nor start()
\* catches, so the promise of start() rejects and the catch of main() runs
\* process.exit(1).
prompt_Rejects ==
  /\ app = "prompt"
  /\ exitCode' = 1
  /\ app' = "exited"
  /\ UNCHANGED <<isRunning, stacksLoaded, stacks, declared, detailedStacks,
                 lookups, selectedStacks, calls, message>>
  /\ UNCHANGED batchOutcome
  /\ UNCHANGED inFlight
  /\ UNCHANGED menuAction
  /\ AppFrame

AppNext ==
  \/ start
  \/ start_Returns
  \/ showMainMenu_Refresh
  \/ showMainMenu_Select
  \/ listStacks_Exits
  \/ listStacks_Returns
  \/ listCDKStacks_Catch
  \/ getStackDetails_Send
  \/ listCDKStacks_Lookup
  \/ mainMenu_Confirm
  \/ session_CtrlC
  \/ session_Throws
  \/ showDeployMenu_Selected
  \/ showDestroyMenu_Selected
  \/ showDeployMenu_Confirm
  \/ showDestroyMenu_Confirm
  \/ deployStack_CheckCDK
  \/ destroyStack_CheckCDK
  \/ deployStack_Run
  \/ destroyStack_Run
  \/ prompt_Back
  \/ prompt_CtrlC
  \/ prompt_Throws
  \/ prompt_Rejects
  \/ main_Returns

AppSpec == AppInit /\ [][AppNext]_vars

(***************************************************************************)
(* The listeners of process.stdin                                          *)
(*                                                                         *)
(* Every call of customSearchableSelect or customMultiSelect registers its *)
(* handleKey with process.stdin.on("data", handleKey) and never removes    *)
(* it.  A listener is the closure of one call: the state its handleKey     *)
(* reads and writes.  A chunk read from stdin is given to every listener,  *)
(* in the order of registration.                                           *)
(***************************************************************************)
\* Selection sessions started in one run of the manager.
MaxSessions == 2

\* Longest search query of a listener.
MaxTyped == 1

\* The chunks typed in these sessions.
ListenerKeys == {"^C", "ESC[B", "CR", " ", "/", "c", "DEL", "ESC", "TAB"}

\* The choices of the sessions.
ListenerChoices == <<Alpha, Child, Other>>

\* The closure of a call at its start.
NewListener(eng, multi, list) ==
  [ engine          |-> eng,
    multiSelect     |-> multi,
    choices         |-> list,
    currentIndex    |-> 0,
    selectedIndices |-> {},
    selectedItems   |-> << >>,
    searchQuery     |-> << >>,
    isSearching     |-> FALSE,
    filteredChoices |-> [k \in 1..Len(list) |-> k - 1],
    settled         |-> FALSE ]

\* filterChoices of the closure h for a query.
filterChoicesIn(h, query) ==
  LET all == [k \in 1..Len(h.choices) |-> k - 1]
      matches(choice) ==
        \/ includes(toLowerCase(h.choices[choice + 1].name), toLowerCase(query))
        \/ includes(toLowerCase(h.choices[choice + 1].value), toLowerCase(query))
  IN IF trim(query) = << >> THEN all ELSE SelectSeq(all, matches)

\* What one call of handleKey did: the closure afterwards, how the call
\* ended ("returned", "exit" for process.exit(0), "throw" for an uncaught
\* TypeError) and whether it switched raw mode off and paused stdin.
Handled(h, ends, rawOff) == [h |-> h, ends |-> ends, rawOff |-> rawOff]

\* The spacebar branch of both handlers.
spacebarIn(h) ==
  LET actualChoice == At(h.filteredChoices, h.currentIndex)
      actualIndex  == IF actualChoice \in 0..(Len(h.choices) - 1)
                        THEN actualChoice ELSE -1
      has          == actualIndex \in h.selectedIndices
      indices      == IF has THEN h.selectedIndices \ {actualIndex}
                             ELSE h.selectedIndices \cup {actualIndex}
  IN IF actualChoice = Undefined
       THEN Handled([h EXCEPT !.selectedIndices = indices], "throw", FALSE)
       ELSE LET value == h.choices[actualChoice + 1].value
                items == IF has
                           THEN splice1(h.selectedItems,
                                        indexOf(h.selectedItems, value))
                           ELSE Append(h.selectedItems, value)
            IN Handled([h EXCEPT !.selectedIndices = indices,
                                 !.selectedItems = items], "returned", FALSE)

\* The query-editing branches: refilter and clamp the cursor, each handler
\* with its own clamp.
refilterIn(h, query) ==
  LET filtered == filterChoicesIn(h, query) IN
    [h EXCEPT !.searchQuery = query,
              !.filteredChoices = filtered,
              !.currentIndex =
                 IF h.engine = "searchable"
                   THEN ClampSearchable(h.currentIndex, Len(filtered))
                   ELSE ClampMulti(h.currentIndex, Len(filtered))]

\* handleKey of customSearchableSelect.
searchableHandleKey(h, key) ==
  CASE key = "^C" -> Handled(h, "exit", FALSE)
    [] key \in UpKeys ->
         Handled([h EXCEPT !.currentIndex = MoveUpIndex(h.currentIndex)],
                 "returned", FALSE)
    [] key \in DownKeys ->
         Handled([h EXCEPT !.currentIndex =
                    MoveDownIndex(h.currentIndex, Len(h.filteredChoices))],
                 "returned", FALSE)
    [] key = " " /\ h.multiSelect -> spacebarIn(h)
    [] key = "CR" ->
         IF /\ ~h.multiSelect
            /\ Len(h.filteredChoices) > 0
            /\ h.currentIndex < Len(h.filteredChoices)
            /\ At(h.filteredChoices, h.currentIndex) = Undefined
           THEN Handled(h, "throw", TRUE)
           ELSE Handled([h EXCEPT !.settled = TRUE], "returned", TRUE)
    [] key \in BackspaceKeys ->
         Handled(refilterIn(h, sliceDropLast(h.searchQuery)),
                 "returned", FALSE)
    [] IsPrintable(key) /\ ~(key = " " /\ h.multiSelect) ->
         Handled(refilterIn(h, Append(h.searchQuery, key)),
                 "returned", FALSE)
    [] OTHER -> Handled(h, "returned", FALSE)

\* handleKey of customMultiSelect.
multiHandleKey(h, key) ==
  CASE key = "^C" -> Handled(h, "exit", FALSE)
    [] key = "/" /\ ~h.isSearching ->
         Handled([h EXCEPT !.isSearching = TRUE, !.searchQuery = << >>],
                 "returned", FALSE)
    [] h.isSearching /\ key \in {"CR", "ESC"} ->
         Handled([refilterIn(h, h.searchQuery)
                    EXCEPT !.isSearching = FALSE], "returned", FALSE)
    [] h.isSearching /\ key \in BackspaceKeys ->
         Handled(refilterIn(h, sliceDropLast(h.searchQuery)),
                 "returned", FALSE)
    [] h.isSearching /\ IsPrintable(key) ->
         Handled(refilterIn(h, Append(h.searchQuery, key)),
                 "returned", FALSE)
    [] h.isSearching -> Handled(h, "returned", FALSE)
    [] key \in UpKeys ->
         Handled([h EXCEPT !.currentIndex = MoveUpIndex(h.currentIndex)],
                 "returned", FALSE)
    [] key \in DownKeys ->
         Handled([h EXCEPT !.currentIndex =
                    MoveDownIndex(h.currentIndex, Len(h.filteredChoices))],
                 "returned", FALSE)
    [] key = " " -> spacebarIn(h)
    [] key = "CR" -> Handled([h EXCEPT !.settled = TRUE], "returned", TRUE)
    [] OTHER -> Handled(h, "returned", FALSE)

handleKey(h, key) ==
  IF h.engine = "searchable" THEN searchableHandleKey(h, key)
                             ELSE multiHandleKey(h, key)

\* process.stdin emits "data": the listeners are called one after the
\* other until one leaves the process.  The result holds the closures
\* afterwards, how many listeners were called, how the last call ended and
\* whether some listener switched raw mode off and paused stdin.
RECURSIVE emitFrom(_, _, _)
emitFrom(acc, key, i) ==
  IF i > Len(acc.listeners) \/ acc.ends # "returned" THEN acc
  ELSE LET o == handleKey(acc.listeners[i], key) IN
         emitFrom([ listeners |-> [acc.listeners EXCEPT ![i] = o.h],
                    called    |-> acc.called + 1,
                    ends      |-> o.ends,
                    rawOff    |-> acc.rawOff \/ o.rawOff ],
                  key, i + 1)

emit(ls, key) ==
  emitFrom([listeners |-> ls, called |-> 0, ends |-> "returned",
            rawOff |-> FALSE], key, 1)

\* The session that is running: the call that registered the last
\* listener, until its promise is settled.
SessionRunning ==
  /\ pc = "active"
  /\ listeners # << >>
  /\ ~listeners[Len(listeners)].settled

ListenerInit == AppIdle /\ SessionIdle /\ ListenersIdle /\ MainDone

ListenerFrame ==
  UNCHANGED <<engine, multiSelect, choices, currentIndex, selectedIndices,
              selectedItems, searchQuery, isSearching, filteredChoices,
              screen, result, appVars, mainVars>>

\* The manager calls customSearchableSelect (the main menu, first and after
\* every menu action) or customMultiSelect (the deploy or destroy menu,
\* after the main menu): setRawMode(true), resume(), on("data", handleKey).
startSession ==
  /\ pc \in {"idle", "resolved"}
  /\ Len(listeners) < MaxSessions
  /\ \E eng \in {"searchable", "multi"} :
       /\ eng = "multi" =>
            /\ listeners # << >>
            /\ listeners[Len(listeners)].engine = "searchable"
       /\ listeners' = Append(listeners,
                              NewListener(eng, eng = "multi", ListenerChoices))
  /\ rawMode' = TRUE
  /\ stdinPaused' = FALSE
  /\ pc' = "active"
  /\ handled' = 0
  /\ lastKey' = "none"
  /\ ListenerFrame

\* A chunk arrives on stdin while it is flowing.
stdin_data ==
  /\ pc = "active"
  /\ ~stdinPaused
  /\ \E key \in ListenerKeys :
       /\ IsPrintable(key) =>
            \A i \in 1..Len(listeners) :
              Len(listeners[i].searchQuery) < MaxTyped
       /\ LET e == emit(listeners, key) IN
            /\ listeners' = e.listeners
            /\ handled' = e.called
            /\ lastKey' = KeyClass(key)
            /\ rawMode' = (rawMode /\ ~e.rawOff)
            /\ stdinPaused' = (stdinPaused \/ e.rawOff)
            /\ pc' = CASE e.ends = "exit" -> "exited"
                       [] e.ends = "throw" -> "crashed"
                       [] e.listeners[Len(e.listeners)].settled -> "resolved"
                       [] OTHER -> "active"
  /\ ListenerFrame

ListenerNext ==
  \/ startSession
  \/ stdin_data

ListenerSpec == ListenerInit /\ [][ListenerNext]_vars

(***************************************************************************)
(* main() of dist/index.js and AWSVaultService.executeCommandWithPath      *)
(*                                                                         *)
(* main() authenticates (with the --vault-profile flag, or through the     *)
(* menu of promptForAuthentication) and then constructs and starts the     *)
(* manager.  The region has been selected; `app` is where main() is:       *)
(* "main", "authMenu", the waits of the handlers ("checkVault",            *)
(* "listProfiles", "profileMenu", "login", "export", "profileRegion",      *)
(* "credentialsPrompt", "sessionTokenPrompt", "verifyConnection"),         *)
(* "authDone", then the positions of the manager.  checkVaultInstalled,    *)
(* loginWithVault and getTemporaryCredentials run one aws-vault command    *)
(* each and await the promise of executeCommandWithPath; `child` is the    *)
(* last of these calls: its `resolved` flag, its timer, the events the     *)
(* child process has emitted, how many times resolve was called and the    *)
(* value the promise holds.                                                *)
(***************************************************************************)
AuthMethods == {"vault", "credentials", "existing", "exit", ""}

\* The exit codes a child process is closed with.
ChildExitCodes == {0, 1}

\* resolve(v) of the promise of executeCommandWithPath: a promise keeps the
\* value of the first call.
resolve(c, v) ==
  [c EXCEPT !.resolveCalls = @ + 1,
            !.value = IF @ = "none" THEN v ELSE @]

\* spawn(awsVaultPath, args) and setTimeout(..., 30000).
spawnChild == [NoChild EXCEPT !.spawned = TRUE, !.timeout = "pending"]

\* The promise of executeCommandWithPath is awaited: by checkVaultInstalled
\* (`aws-vault --version`), by loginWithVault (`aws-vault exec`) or by
\* getTemporaryCredentials (`aws-vault export`).
AwaitingChild == app \in {"checkVault", "login", "export"} /\ child.spawned

\* main() before the manager is constructed: no field of the manager and
\* no selection session of it changes.
MainFrame ==
  UNCHANGED <<sessionVars, lsnVars, isRunning, stacksLoaded, stacks, declared,
              detailedStacks, lookups, inFlight, menuAction, selectedStacks,
              calls, message, batchOutcome>>

\* The authentication step gives false.  main with argv.vaultProfile exits
\* with 1; handleVaultAuthentication returns false to
\* promptForAuthentication, whose result main assigns to `authenticated`.
authenticationFails ==
  IF vaultProfile
  THEN /\ exitCode' = 1
       /\ app' = "exited"
       /\ UNCHANGED authenticated
  ELSE /\ authenticated' = FALSE
       /\ app' = "authDone"
       /\ UNCHANGED exitCode

\* executeCommandWithPath is called and `next` awaits its promise.  When
\* spawn throws (an argument it rejects, E2BIG) there is no child and no
\* timer, the promise rejects and the catch of the caller gives false.
runVaultCommand(next) ==
  \E thrown \in BOOLEAN :
    IF thrown
    THEN /\ child' = NoChild
         /\ authenticationFails
    ELSE /\ child' = spawnChild
         /\ app' = next
         /\ UNCHANGED <<exitCode, authenticated>>

\* The 30-second timer fires.
executeCommandWithPath_Timeout ==
  /\ AwaitingChild
  /\ child.timeout = "pending"
  /\ child' = IF ~child.resolved
              THEN resolve([child EXCEPT !.timeout = "fired",
                                         !.resolved = TRUE,
                                         !.killed = TRUE], "timed out")
              ELSE [child EXCEPT !.timeout = "fired"]
  /\ UNCHANGED <<app, exitCode, authenticated, vaultProfile>>
  /\ MainFrame

executeCommandWithPath_Close_Unguarded ==
  /\ AwaitingChild
  /\ ~child.closed
  /\ \E code \in ChildExitCodes :
       child' = resolve([child EXCEPT !.closed = TRUE,
                                      !.resolved = TRUE,
                                      !.timeout = IF @ = "pending"
                                                  THEN "cleared" ELSE @],
                        IF code = 0 THEN "success" ELSE "failure")
  /\ UNCHANGED <<app, exitCode, authenticated, vaultProfile>>
  /\ MainFrame

\* child.on("close", (code) => ...).
executeCommandWithPath_Close ==
  /\ AwaitingChild
  /\ ~child.closed
  /\ \E code \in ChildExitCodes :
       child' = IF ~child.resolved
                THEN resolve([child EXCEPT !.closed = TRUE,
                                           !.resolved = TRUE,
                                           !.timeout = IF @ = "pending"
                                                       THEN "cleared" ELSE @],
                             IF code = 0 THEN "success" ELSE "failure")
                ELSE [child EXCEPT !.closed = TRUE]
  /\ UNCHANGED <<app, exitCode, authenticated, vaultProfile>>
  /\ MainFrame

\* child.on("error", (err) => ...); 'close' is the last event of a child.
executeCommandWithPath_Error ==
  /\ AwaitingChild
  /\ ~child.errored
  /\ ~child.closed
  /\ child' = IF ~child.resolved
              THEN resolve([child EXCEPT !.errored = TRUE,
                                         !.resolved = TRUE,
                                         !.timeout = IF @ = "pending"
                                                     THEN "cleared" ELSE @],
                           "failure")
              ELSE [child EXCEPT !.errored = TRUE]
  /\ UNCHANGED <<app, exitCode, authenticated, vaultProfile>>
  /\ MainFrame

\* main with argv.vaultProfile: cdkService.checkVaultInstalled() runs
\* `aws-vault --version`.
main_VaultProfile ==
  /\ app = "main"
  /\ vaultProfile
  /\ runVaultCommand("checkVault")
  /\ UNCHANGED vaultProfile
  /\ MainFrame

\* main without argv.vaultProfile: promptForAuthentication shows its menu.
main_PromptForAuthentication ==
  /\ app = "main"
  /\ ~vaultProfile
  /\ app' = "authMenu"
  /\ UNCHANGED <<exitCode, authenticated, vaultProfile, child>>
  /\ MainFrame

\* promptForAuthentication: the menu resolved with authMethod.  "vault"
\* starts handleVaultAuthentication (checkVaultInstalled first),
\* "credentials" opens the prompt of handleCredentialsAuthentication,
\* "existing" sends the request of verifyConnection; "exit" and anything
\* else return false.
promptForAuthentication ==
  /\ app = "authMenu"
  /\ \E authMethod \in AuthMethods :
       CASE authMethod = "vault" -> runVaultCommand("checkVault")
         [] authMethod = "credentials" ->
              /\ app' = "credentialsPrompt"
              /\ UNCHANGED <<exitCode, authenticated, child>>
         [] authMethod = "existing" ->
              /\ app' = "verifyConnection"
              /\ UNCHANGED <<exitCode, authenticated, child>>
         [] OTHER ->
              /\ authenticated' = FALSE
              /\ app' = "authDone"
              /\ UNCHANGED <<exitCode, child>>
  /\ UNCHANGED vaultProfile
  /\ MainFrame

\* handleCredentialsAuthentication: the prompt for the key pair is
\* answered.  An access key that starts with "ASIA" opens the prompt for
\* the session token; otherwise setDirectCredentials is called (it awaits
\* nothing) and the handler returns true, or false when it threw.
handleCredentialsAuthentication_Answered ==
  /\ app = "credentialsPrompt"
  /\ \E temporary \in BOOLEAN, credentialsSet \in BOOLEAN :
       IF temporary
       THEN /\ app' = "sessionTokenPrompt"
            /\ UNCHANGED authenticated
       ELSE /\ authenticated' = credentialsSet
            /\ app' = "authDone"
  /\ UNCHANGED <<exitCode, vaultProfile, child>>
  /\ MainFrame

\* handleCredentialsAuthentication: the prompt for the session token is
\* answered, setDirectCredentials is called.
handleCredentialsAuthentication_SessionToken ==
  /\ app = "sessionTokenPrompt"
  /\ \E credentialsSet \in BOOLEAN : authenticated' = credentialsSet
  /\ app' = "authDone"
  /\ UNCHANGED <<exitCode, vaultProfile, child>>
  /\ MainFrame

\* handleExistingCredentials: verifyConnection returns (the answer of STS,
\* its error or the 10-second timer).
handleExistingCredentials_Returns ==
  /\ app = "verifyConnection"
  /\ \E connected \in BOOLEAN : authenticated' = connected
  /\ app' = "authDone"
  /\ UNCHANGED <<exitCode, vaultProfile, child>>
  /\ MainFrame

\* Ctrl-C in a menu of dist/index.js (customSearchableSelect): process.exit(0).
authMenu_CtrlC ==
  /\ app \in {"authMenu", "profileMenu"}
  /\ exitCode' = 0
  /\ app' = "exited"
  /\ UNCHANGED <<authenticated, vaultProfile, child>>
  /\ MainFrame

\* A key handler of a menu of dist/index.js throws (Enter with the cursor
\* at -1): the uncaughtException handler ends the process with code 1.
authMenu_Throws ==
  /\ app \in {"authMenu", "profileMenu"}
  /\ exitCode' = 1
  /\ app' = "exited"
  /\ UNCHANGED <<authenticated, vaultProfile, child>>
  /\ MainFrame

\* checkVaultInstalled returned result.success of `aws-vault --version`.
\* main: not installed exits with 1, else loginWithVault runs
\* `aws-vault exec`.  handleVaultAuthentication: not installed returns
\* false, else listVaultProfiles is awaited.
checkVaultInstalled_Returns ==
  /\ app = "checkVault"
  /\ child.value # "none"
  /\ IF child.value # "success"
     THEN authenticationFails /\ UNCHANGED child
     ELSE IF vaultProfile
          THEN runVaultCommand("login")
          ELSE /\ app' = "listProfiles"
               /\ UNCHANGED <<exitCode, authenticated, child>>
  /\ UNCHANGED vaultProfile
  /\ MainFrame

\* handleVaultAuthentication: listVaultProfiles returned (the files of
\* ~/.aws were read).  Without a profile the handler returns false, else
\* the profile menu is shown.
listVaultProfiles_Returns ==
  /\ app = "listProfiles"
  /\ \E profilesFound \in BOOLEAN :
       IF profilesFound
       THEN /\ app' = "profileMenu"
            /\ UNCHANGED authenticated
       ELSE /\ authenticated' = FALSE
            /\ app' = "authDone"
  /\ UNCHANGED <<exitCode, vaultProfile, child>>
  /\ MainFrame

\* handleVaultAuthentication: a profile was selected, loginWithVault runs
\* `aws-vault exec`.
handleVaultAuthentication_Select ==
  /\ app = "profileMenu"
  /\ runVaultCommand("login")
  /\ UNCHANGED vaultProfile
  /\ MainFrame

\* AWSVaultService.loginWithVault: `aws-vault exec` resolved.  Without
\* success, or when its output is not JSON, the login gives false; else
\* getTemporaryCredentials runs `aws-vault export`.
loginWithVault_Exec ==
  /\ app = "login"
  /\ child.value # "none"
  /\ \E parsed \in BOOLEAN :
       IF child.value = "success" /\ parsed
       THEN runVaultCommand("export")
       ELSE authenticationFails /\ UNCHANGED child
  /\ UNCHANGED vaultProfile
  /\ MainFrame

\* getTemporaryCredentials: `aws-vault export` resolved.  Without success,
\* without output or when the output is not JSON it returns null and the
\* login gives false; else getProfileRegion is awaited.
getTemporaryCredentials_Returns ==
  /\ app = "export"
  /\ child.value # "none"
  /\ \E credentials \in BOOLEAN :
       IF child.value = "success" /\ credentials
       THEN /\ app' = "profileRegion"
            /\ UNCHANGED <<exitCode, authenticated>>
       ELSE authenticationFails
  /\ UNCHANGED <<vaultProfile, child>>
  /\ MainFrame

\* getProfileRegion returned (the files of ~/.aws were read); the session
\* is made, CDKStackService.loginWithVault sets it and returns true, or
\* false when setVaultSession threw.  main: true sets `authenticated`,
\* false exits with 1.  handleVaultAuthentication returns it to
\* promptForAuthentication.
loginWithVault_Returns ==
  /\ app = "profileRegion"
  /\ \E sessionSet \in BOOLEAN :
       IF sessionSet
       THEN /\ authenticated' = TRUE
            /\ app' = "authDone"
            /\ UNCHANGED exitCode
       ELSE authenticationFails
  /\ UNCHANGED <<vaultProfile, child>>
  /\ MainFrame

\* main: if (!authenticated) process.exit(1).
main_AuthenticationFailed ==
  /\ app = "authDone"
  /\ ~authenticated
  /\ exitCode' = 1
  /\ app' = "exited"
  /\ UNCHANGED <<authenticated, vaultProfile, child>>
  /\ MainFrame

main_StartManager_Unchecked ==
  /\ app = "authDone"
  /\ app' = "idle"
  /\ UNCHANGED <<exitCode, authenticated, vaultProfile, child>>
  /\ MainFrame

\* main: new InteractiveCDKManager(cdkService, config); start() is next.
main_StartManager ==
  /\ app = "authDone"
  /\ authenticated
  /\ app' = "idle"
  /\ UNCHANGED <<exitCode, authenticated, vaultProfile, child>>
  /\ MainFrame

MainInit ==
  /\ app = "main"
  /\ isRunning = FALSE
  /\ stacksLoaded = FALSE
  /\ stacks = << >>
  /\ declared = << >>
  /\ detailedStacks = << >>
  /\ lookups = << >>
  /\ inFlight = {}
  /\ menuAction = "none"
  /\ selectedStacks = << >>
  /\ calls = << >>
  /\ message = "none"
  /\ batchOutcome = "none"
  /\ exitCode = -1
  /\ authenticated = FALSE
  /\ vaultProfile \in BOOLEAN
  /\ child = NoChild
  /\ SessionIdle
  /\ ListenersIdle

MainNext ==
  \/ main_VaultProfile
  \/ main_PromptForAuthentication
  \/ promptForAuthentication
  \/ handleCredentialsAuthentication_Answered
  \/ handleCredentialsAuthentication_SessionToken
  \/ handleExistingCredentials_Returns
  \/ authMenu_CtrlC
  \/ authMenu_Throws
  \/ executeCommandWithPath_Timeout
  \/ executeCommandWithPath_Close
  \/ executeCommandWithPath_Error
  \/ checkVaultInstalled_Returns
  \/ listVaultProfiles_Returns
  \/ handleVaultAuthentication_Select
  \/ loginWithVault_Exec
  \/ getTemporaryCredentials_Returns
  \/ loginWithVault_Returns
  \/ main_AuthenticationFailed
  \/ main_StartManager
  \/ start
  \/ start_Returns
  \/ showMainMenu_Refresh
  \/ showMainMenu_Select
  \/ listStacks_Exits
  \/ listStacks_Returns
  \/ listCDKStacks_Catch
  \/ getStackDetails_Send
  \/ listCDKStacks_Lookup
  \/ mainMenu_Confirm
  \/ session_CtrlC
  \/ session_Throws
  \/ showDeployMenu_Selected
  \/ showDestroyMenu_Selected
  \/ showDeployMenu_Confirm
  \/ showDestroyMenu_Confirm
  \/ deployStack_CheckCDK
  \/ destroyStack_CheckCDK
  \/ deployStack_Run
  \/ destroyStack_Run
  \/ prompt_Back
  \/ prompt_CtrlC
  \/ prompt_Throws
  \/ prompt_Rejects
  \/ main_Returns

MainSpec == MainInit /\ [][MainNext]_vars



(***************************************************************************)
(* Vocabulary of the properties                                            *)
(***************************************************************************)
\* An item is shown under the cursor.
ItemUnderCursor == currentIndex \in 0..(Len(filteredChoices) - 1)

\* Steps in which a handler recomputed the filtered view from the query.
PrintableStep == SS_Printable \/ MS_SearchPrintable
BackspaceStep == SS_Backspace \/ MS_SearchBackspace
RefilterStep == PrintableStep \/ BackspaceStep \/ MS_SearchExit

\* Steps of the ToggleSelect event (the spacebar in a multi-select session).
ToggleStep == SS_Space \/ MS_Space

\* The positions of `choices`, in original order, that satisfy a predicate.
InOriginalOrder(Keep(_)) == SelectSeq(AllChoices, Keep)

\* s contains q as a substring, ignoring case.
ContainsCI(s, q) ==
  \E from \in 1..(Len(s) + 1) :
    /\ from + Len(q) - 1 <= Len(s)
    /\ \A k \in 1..Len(q) : LowerChar(s[from + k - 1]) = LowerChar(q[k])

\* The values of the selected original indices, in original-list order.
SelectedValuesInOriginalOrder ==
  LET sel == InOriginalOrder(LAMBDA i : i \in selectedIndices)
  IN  [k \in 1..Len(sel) |-> ValueOf(sel[k])]

(***************************************************************************)
(* C1: in every selection session, after any sequence of key events, the   *)
(* cursor is an index in [0, |filtered|-1] whenever the filtered view is   *)
(* non-empty.                                                              *)
(***************************************************************************)
C1_CursorIsValidIndex ==
  Len(filteredChoices) > 0 => currentIndex \in 0..(Len(filteredChoices) - 1)

(***************************************************************************)
(* C2: in a multi-select session every member of selectedIndices is an     *)
(* index in 0..n-1 of the full choice list, whatever the query, the        *)
(* filtered view or the cursor.                                            *)
(***************************************************************************)
C2_SelectedIndicesInRange ==
  multiSelect => selectedIndices \subseteq 0..(NumChoices - 1)

(***************************************************************************)
(* C3: PrintableChar and Backspace events, and entering or leaving search  *)
(* mode, leave selectedIndices and the list of selected values unchanged;  *)
(* every row drawn afterwards is checked exactly when its original index   *)
(* is selected, and when the event leaves the filter cleared (the view     *)
(* refiltered under an empty query) every selected item is shown checked.  *)
(***************************************************************************)
ShownChecked(i) ==
  \E k \in 1..Len(screen.rows) :
    screen.rows[k].choice = i /\ screen.rows[k].checkbox = "checked"

C3_FilteringKeepsSelection ==
  [][ (RefilterStep \/ MS_StartSearch) =>
        /\ selectedIndices' = selectedIndices
        /\ selectedItems' = selectedItems
        /\ multiSelect =>
             /\ Len(screen'.rows) = Len(filteredChoices')
             /\ \A k \in 1..Len(filteredChoices') :
                  /\ screen'.rows[k].choice = filteredChoices'[k]
                  /\ (screen'.rows[k].checkbox = "checked")
                       <=> (filteredChoices'[k] \in selectedIndices)
             /\ (RefilterStep /\ searchQuery' = << >>) =>
                  \A i \in selectedIndices : ShownChecked(i)'
    ]_vars

\* A selected item was hidden by a query and is shown checked again after
\* backspacing to the empty query.
C3_Witness ==
  /\ multiSelect
  /\ pc = "active"
  /\ lastKey = "Backspace"
  /\ searchQuery = << >>
  /\ filteredChoices = AllChoices
  /\ selectedIndices = {0, 2}
  /\ ShownChecked(2)

(***************************************************************************)
(* C4 (as stated): filterChoices(Q) returns exactly the items, in original *)
(* order, for which Q is the empty string or the name or the value         *)
(* contains Q as a case-insensitive substring.                             *)
(***************************************************************************)
MatchesAsStated(i, q) ==
  q = << >> \/ ContainsCI(NameOf(i), q) \/ ContainsCI(ValueOf(i), q)

C4_FilterAsStated ==
  [][ RefilterStep =>
        filteredChoices' = InOriginalOrder(LAMBDA i : MatchesAsStated(i, searchQuery'))
    ]_vars

(***************************************************************************)
(* C4 (amended): filterChoices(Q) returns exactly the items, in original   *)
(* order, for which Q is empty or consists of whitespace only, or the name *)
(* or the value contains Q as a case-insensitive substring.                *)
(***************************************************************************)
IsBlank(q) == \A k \in 1..Len(q) : q[k] = " "

MatchesAmended(i, q) ==
  IsBlank(q) \/ ContainsCI(NameOf(i), q) \/ ContainsCI(ValueOf(i), q)

C4_FilterAmended ==
  /\ [][ RefilterStep =>
           filteredChoices' = InOriginalOrder(LAMBDA i : MatchesAmended(i, searchQuery'))
       ]_vars
  /\ [](filterChoices(searchQuery)
          = InOriginalOrder(LAMBDA i : MatchesAmended(i, searchQuery)))

\* The query "Hi" selected Child alone, through its name and ignoring case.
C4_Witness ==
  /\ choices = <<Alpha, Child, Other>>
  /\ lastKey = "Char"
  /\ searchQuery = <<"H", "i">>
  /\ filteredChoices = <<1>>

(***************************************************************************)
(* C5: on Confirm in multi-select mode the returned list is the values of  *)
(* the items whose original indices are in selectedIndices, ordered by     *)
(* position in the original list and not by the order of toggling.         *)
(***************************************************************************)
C5_ResultInOriginalOrder ==
  (multiSelect /\ pc = "resolved") =>
     /\ result.kind = "list"
     /\ result.value = SelectedValuesInOriginalOrder

(***************************************************************************)
(* C6: Confirm in single-select mode resolves the session with the value   *)
(* of the item under the cursor in the filtered view, or with the empty    *)
(* string if the filtered view is empty; it never reads an item outside    *)
(* the filtered view.                                                      *)
(***************************************************************************)
C6_ConfirmSingle ==
  (engine = "searchable" /\ ~multiSelect /\ lastKey = "Enter") =>
     /\ pc = "resolved"
     /\ result.kind = "value"
     /\ IF filteredChoices = << >>
        THEN result.value = << >>
        ELSE /\ ItemUnderCursor
             /\ result.value = ValueOf(filteredChoices[currentIndex + 1])

(***************************************************************************)
(* C7: ToggleSelect in multi-select mode, with an item shown under the     *)
(* cursor, flips the membership of exactly the original index of that item *)
(* and changes no other member of selectedIndices, also when a filter is   *)
(* active and the position in the view differs from the original index.    *)
(***************************************************************************)
C7_ToggleFlipsOriginalIndex ==
  [][ (ToggleStep /\ ItemUnderCursor) =>
        LET item == filteredChoices[currentIndex + 1]
        IN  /\ item \in 0..(NumChoices - 1)
            /\ (item \in selectedIndices') <=> (item \notin selectedIndices)
            /\ \A i \in (selectedIndices \cup selectedIndices') \ {item} :
                 (i \in selectedIndices') <=> (i \in selectedIndices)
    ]_vars

\* A toggle was made under an active filter on a row whose position differs
\* from its original index.
C7_Witness ==
  /\ multiSelect
  /\ pc = "active"
  /\ ~isSearching
  /\ lastKey = "Space"
  /\ Len(filteredChoices) < NumChoices
  /\ ItemUnderCursor
  /\ filteredChoices[currentIndex + 1] # currentIndex
  /\ selectedIndices = {filteredChoices[currentIndex + 1]}

(***************************************************************************)
(* C8: two consecutive ToggleSelect events with the cursor on the same     *)
(* item restore selectedIndices and the list of selected values to what    *)
(* they were before the first toggle.                                      *)
(***************************************************************************)
C8_DoubleToggleRestores ==
  (multiSelect /\ pc = "active" /\ ItemUnderCursor) =>
     LET once  == Toggle(selectedIndices, selectedItems, filteredChoices, currentIndex)
         twice == Toggle(once.indices, once.items, filteredChoices, currentIndex)
     IN  /\ twice.indices = selectedIndices
         /\ twice.items = selectedItems

(***************************************************************************)
(* C9: after a PrintableChar or Backspace event the cursor equals          *)
(* min(previous cursor, max(0, |filtered|-1)).                             *)
(***************************************************************************)
C9_CursorClamped ==
  [][ (PrintableStep \/ BackspaceStep) =>
        currentIndex' = Min(currentIndex, Max(0, Len(filteredChoices') - 1))
    ]_vars

(***************************************************************************)
(* C10 (as stated): over a non-empty filtered view MoveUp sets the cursor  *)
(* to max(0, cursor-1) and MoveDown to min(|filtered|-1, cursor+1), and    *)
(* neither changes the query, the filtered view or the selection.          *)
(***************************************************************************)
MoveUpEvent == pc = "active" /\ lastKey' = "Up" /\ Len(filteredChoices) > 0
MoveDownEvent == pc = "active" /\ lastKey' = "Down" /\ Len(filteredChoices) > 0

MoveFrame ==
  UNCHANGED <<searchQuery, filteredChoices, selectedIndices, selectedItems>>

Moved(target) ==
  /\ currentIndex' = target
  /\ currentIndex' - currentIndex \in {-1, 0, 1}
  /\ MoveFrame

C10_MoveAsStated ==
  [][ /\ MoveUpEvent => Moved(Max(0, currentIndex - 1))
      /\ MoveDownEvent => Moved(Min(Len(filteredChoices) - 1, currentIndex + 1))
    ]_vars

(***************************************************************************)
(* C10 (amended): in customSearchableSelect, and in customMultiSelect      *)
(* while it is not in search mode, MoveUp sets the cursor to               *)
(* max(0, cursor-1) and MoveDown to min(|filtered|-1, cursor+1) over a     *)
(* non-empty view, moving by at most one and never wrapping; while         *)
(* customMultiSelect is in search mode the arrow keys leave the cursor     *)
(* where it is. In both cases the query, the filtered view and the         *)
(* selection are unchanged.                                                *)
(***************************************************************************)
InSearchMode == engine = "multi" /\ isSearching

C10_MoveAmended ==
  [][ /\ MoveUpEvent =>
           Moved(IF InSearchMode THEN currentIndex ELSE Max(0, currentIndex - 1))
      /\ MoveDownEvent =>
           Moved(IF InSearchMode THEN currentIndex
                 ELSE Min(Len(filteredChoices) - 1, currentIndex + 1))
    ]_vars

\* MoveDown has reached the last row of a view of three rows.
C10_Witness ==
  /\ pc = "active"
  /\ lastKey = "Down"
  /\ ~isSearching
  /\ Len(filteredChoices) = 3
  /\ currentIndex = 2

(***************************************************************************)
(* Reconciliation and dispatch: vocabulary                                 *)
(***************************************************************************)
\* The kinds of the responses the lookups of the refresh got.
LookupKinds == { lookups[k].response.kind : k \in 1..Len(lookups) }

\* `entries` lists the first Len(entries) declared stacks, one entry each,
\* in declared order.
ListsDeclaredPrefix(entries) ==
  /\ Len(entries) <= Len(declared)
  /\ \A i \in 1..Len(entries) : entries[i].stackName = declared[i].fullName

\* The executor process spawned by this step, if the step spawned one.
SpawnedCall == calls'[Len(calls')]

Spawns(verbs) ==
  /\ Len(calls') = Len(calls) + 1
  /\ SpawnedCall.verb \in verbs

\* This step is `cdk list` failing: non-zero exit code or spawn error
\* (success false), or no output.
ListingFailedStep ==
  /\ app = "listing"
  /\ Spawns({"list"})
  /\ ~SpawnedCall.success \/ SpawnedCall.output = << >>

\* This step is a status lookup that fails.
LookupErrorStep ==
  /\ app = "lookup"
  /\ Len(lookups') = Len(lookups) + 1
  /\ lookups'[Len(lookups')].response.kind = "error"

\* This step is a deploy or destroy batch failing: the CLI is missing, the
\* batch process did not exit with code 0, or no process could be spawned.
BatchFailedStep ==
  /\ app \in {"deployCheck", "destroyCheck", "deployRun", "destroyRun"}
  /\ \/ calls' = calls
     \/ Spawns({"--version", "deploy", "destroy"}) /\ ~SpawnedCall.success

\* The deploy and destroy processes spawned for the menu action.
BatchCallsMade ==
  SelectSeq(calls, LAMBDA c : c.verb \in {"deploy", "destroy"})

\* The verb of the menu the manager is in or has just left.
BatchVerb ==
  IF app \in {"deployCheck", "deployRun"}
     \/ message \in {"Successfully deployed", "Failed to deploy stacks"}
  THEN "deploy" ELSE "destroy"

\* A non-empty selection has been confirmed and its dispatch is over.
BatchOver == app = "prompt" /\ selectedStacks # << >>

CheckSucceeded ==
  \E k \in 1..Len(calls) : calls[k].verb = "--version" /\ calls[k].success

(***************************************************************************)
(* C11: listCDKStacks produces exactly one entry per declared stack, in    *)
(* declared order, whatever each lookup returns: while the loop runs the   *)
(* entries pushed so far list a prefix of the declared stacks, and the     *)
(* inventory stored after it lists all of them, entry i carrying the       *)
(* fullName of declared stack i.                                           *)
(***************************************************************************)
C11_OneEntryPerDeclared ==
  /\ app = "lookup" =>
       /\ ListsDeclaredPrefix(detailedStacks)
       /\ Len(detailedStacks) = Len(lookups)
  /\ app # "lookup" =>
       /\ ListsDeclaredPrefix(stacks)
       /\ Len(stacks) = Len(declared)

C11_Witness ==
  /\ app = "loop"
  /\ Len(declared) = 3
  /\ Len(stacks) = 3
  /\ LookupKinds = {"found", "notFound", "error"}

(***************************************************************************)
(* C12: the status of an entry is NOT_DEPLOYED exactly when the lookup     *)
(* for its backing identifier reported that the stack does not exist, and  *)
(* UNKNOWN exactly when the lookup failed.                                 *)
(***************************************************************************)
C12_StatusTellsLookupOutcome ==
  \A k \in 1..Min(Len(detailedStacks), Len(lookups)) :
    /\ detailedStacks[k].stackStatus = "NOT_DEPLOYED"
         <=> lookups[k].response.kind = "notFound"
    /\ detailedStacks[k].stackStatus = "UNKNOWN"
         <=> lookups[k].response.kind = "error"

(***************************************************************************)
(* C13: a lookup that fails does not abort listCDKStacks: the step of the  *)
(* failing lookup pushes an entry for its stack and leaves the loop only   *)
(* after the last declared stack, and once the loop is over every declared *)
(* stack has been looked up, by its backing identifier, and is listed.     *)
(***************************************************************************)
C13_LookupErrorDoesNotAbort ==
  [][ /\ LookupErrorStep =>
           /\ Len(detailedStacks') = Len(detailedStacks) + 1
           /\ detailedStacks'[Len(detailedStacks')].stackName
                = declared[Len(detailedStacks')].fullName
           /\ app' = "lookup" <=> Len(detailedStacks') < Len(declared)
      /\ (app = "lookup" /\ app' # "lookup") =>
           /\ Len(lookups') = Len(declared)
           /\ Len(stacks') = Len(declared)
           /\ \A i \in 1..Len(declared) :
                /\ lookups'[i].cfStackName = declared[i].cfStackName
                /\ stacks'[i].stackName = declared[i].fullName
    ]_vars

C13_Witness ==
  /\ app = "loop"
  /\ Len(declared) = 3
  /\ Len(stacks) = 3
  /\ lookups[2].response.kind = "error"
  /\ lookups[3].response.kind = "found"
  /\ stacks[3].stackId # NoStackId

(***************************************************************************)
(* C14 as stated: once a non-empty selection of the deploy or destroy menu *)
(* has been confirmed and dispatched, exactly one deploy (resp. destroy)   *)
(* process was spawned, and its arguments name every selected stack.       *)
(***************************************************************************)
C14_ExactlyOneBatchCall ==
  BatchOver =>
    /\ Len(BatchCallsMade) = 1
    /\ BatchCallsMade[1].verb = BatchVerb
    /\ BatchCallsMade[1].names = cleanStackNames(selectedStacks)

(***************************************************************************)
(* C14 amended: a confirmed non-empty selection spawns at most one deploy  *)
(* (resp. destroy) process, never one per stack; it spawns exactly one,    *)
(* whose arguments name every selected stack, when the CDK availability    *)
(* check succeeded and the batch process could be spawned (it then ended   *)
(* with an exit code or a spawn error), and none when the check failed or  *)
(* spawn threw, in which case the batch is reported as failed.             *)
(***************************************************************************)
C14_OneBatchCallIfCDKInstalled ==
  /\ Len(BatchCallsMade) <= 1
  /\ \A k \in 1..Len(BatchCallsMade) :
       /\ BatchCallsMade[k].verb = BatchVerb
       /\ BatchCallsMade[k].names = cleanStackNames(selectedStacks)
       /\ Len(BatchCallsMade[k].names) = Len(selectedStacks)
  /\ BatchOver =>
       /\ Len(BatchCallsMade) = 1 <=> batchOutcome # "none"
       /\ Len(BatchCallsMade) = 1 => CheckSucceeded
       /\ Len(BatchCallsMade) = 0 => message = batchMessage(BatchVerb, FALSE)

C14_Witness ==
  /\ BatchOver
  /\ Len(selectedStacks) >= 2
  /\ CheckSucceeded
  /\ Len(BatchCallsMade) = 1
  /\ Len(BatchCallsMade[1].names) = Len(selectedStacks)

(***************************************************************************)
(* C19: when `cdk list` fails (non-zero exit code, spawn error or empty    *)
(* output) the process ends with a non-zero exit code in that very step,   *)
(* with no status lookup made for the refresh; and a process that has      *)
(* ended makes no lookup and shows no menu.                                *)
(***************************************************************************)
C19_ListingFailureTerminates ==
  [][ /\ ListingFailedStep =>
           /\ exitCode' > 0
           /\ app' = "exited"
           /\ lookups' = << >>
           /\ detailedStacks' = << >>
      /\ app = "exited" => app' = "exited" /\ lookups' = lookups
    ]_vars

C19_Witness ==
  /\ app = "exited"
  /\ exitCode = 1
  /\ stacksLoaded
  /\ Len(stacks) > 0
  /\ lookups = << >>
  /\ calls # << >>
  /\ calls[Len(calls)].verb = "list"
  /\ calls[Len(calls)].success
  /\ calls[Len(calls)].output = << >>

C15_RawModeOffAtSessionEnd ==
  pc \in {"resolved", "exited", "crashed"} => ~rawMode

\* This step handles a chunk for which the handler has no branch: one that
\* is no known sequence at all, or a lone Escape outside the search mode of
\* customMultiSelect (where Escape is the known sequence that leaves it).
UnrecognizedStep ==
  /\ pc = "active"
  /\ \/ lastKey' = "Other"
     \/ lastKey' = "Escape" /\ ~(engine = "multi" /\ isSearching)

(***************************************************************************)
(* C18: a key chunk that matches no known sequence leaves the query, the   *)
(* filtered view, the cursor and selectedIndices unchanged and raises no   *)
(* error: the session stays active.                                       *)
(***************************************************************************)
C18_UnrecognizedKeyIgnored ==
  [][ UnrecognizedStep =>
        /\ UNCHANGED <<searchQuery, filteredChoices, currentIndex,
                       selectedIndices>>
        /\ pc' = "active"
    ]_vars

C18_Witness ==
  /\ pc = "active"
  /\ lastKey = "Other"
  /\ engine = "multi"
  /\ isSearching
  /\ searchQuery # << >>
  /\ selectedIndices # {}
  /\ Len(filteredChoices) < NumChoices

(***************************************************************************)
(* C16: while a selection session is running the terminal is in raw mode   *)
(* and stdin is flowing, whatever keys were handled in it and whichever    *)
(* sessions ended before it.                                               *)
(***************************************************************************)
C16_RawModeWhileSessionRuns ==
  SessionRunning => (rawMode /\ ~stdinPaused)

(***************************************************************************)
(* C17: a session that has confirmed receives no further key events: each  *)
(* chunk is given to one handler only, that of the running session.        *)
(***************************************************************************)
C17_OneHandlerPerKey ==
  handled <= 1

(***************************************************************************)
(* Dispatch and summaries: vocabulary                                      *)
(***************************************************************************)
\* This step hands a selection to CDKStackService.destroyStack.
DestroyDispatched == app # "destroyCheck" /\ app' = "destroyCheck"

\* This step answers a prompt of the manager other than a selection list
\* (the only one is "Press Enter to go back to main menu").
ConfirmationAnswered == app = "prompt"

(***************************************************************************)
(* C21: a destroy of the selected stacks is dispatched only after a        *)
(* separate confirmation prompt has been answered: the step that hands     *)
(* the selection to destroyStack answers a confirmation prompt, it is not  *)
(* the end of the wait that follows Enter in the selection list.           *)
(***************************************************************************)
C21_DestroyOnlyAfterConfirmation ==
  [][DestroyDispatched => ConfirmationAnswered]_vars

\* deployStack/destroyStack of the service returned true: the menu printed
\* its success line.
ReturnedTrue ==
  message \in {"Successfully deployed", "Successfully destroyed"}

\* deployStack/destroyStack of the service returned false.
ReturnedFalse ==
  message \in {"Failed to deploy stacks", "Failed to destroy stacks"}

(***************************************************************************)
(* C22: once a confirmed non-empty selection has been dispatched, the      *)
(* service has returned one boolean to the menu, and it is true if and     *)
(* only if the one deploy/destroy process of the batch exited with code 0: *)
(* a missing CDK CLI or a process that could not be spawned (no batch     *)
(* process at all), a spawn error or another exit code gives false.  The   *)
(* menu got the value and the process goes on: no exception reached the    *)
(* menu.                                                                   *)
(***************************************************************************)
C22_BatchResultIsExitCodeZero ==
  BatchOver =>
    /\ ReturnedTrue \/ ReturnedFalse
    /\ ReturnedTrue <=> (Len(BatchCallsMade) = 1 /\ batchOutcome = "code 0")
    /\ ~CheckSucceeded => (ReturnedFalse /\ batchOutcome = "none")
    /\ batchOutcome = "none" => (ReturnedFalse /\ Len(BatchCallsMade) = 0)
    /\ batchOutcome \in {"code 1", "error"} => ReturnedFalse
    /\ \A k \in 1..Len(BatchCallsMade) :
         BatchCallsMade[k].success = ReturnedTrue
    /\ exitCode = -1
    /\ isRunning

C22_Witness ==
  /\ BatchOver
  /\ Len(selectedStacks) >= 2
  /\ batchOutcome = "code 0"
  /\ message = "Successfully destroyed"
  /\ Len(BatchCallsMade) = 1

\* The fullName values the reconciled inventory carries.
InventoryFullNames == { stacks[k].stackName : k \in 1..Len(stacks) }

(***************************************************************************)
(* C23 as stated: the names submitted to the executor by the deploy and    *)
(* destroy menus are exactly the fullName values of the confirmed          *)
(* selection, one per selected item, as the inventory carries them.        *)
(***************************************************************************)
C23_SubmitsFullNames ==
  \A c \in 1..Len(BatchCallsMade) :
    /\ BatchCallsMade[c].names = selectedStacks
    /\ \A k \in 1..Len(selectedStacks) :
         selectedStacks[k] \in InventoryFullNames

\* How many entries of `list` have one of the statuses `statuses`.
CountWithStatus(list, statuses) ==
  Cardinality({ k \in 1..Len(list) : list[k].stackStatus \in statuses })

\* The summary counters over `list` are as C24 says.
SummaryCounts(list) ==
  /\ deployedCount(list) =
       Len(list) - CountWithStatus(list, {"NOT_DEPLOYED", "UNKNOWN"})
  /\ undeployedCount(list) =
       CountWithStatus(list, {"NOT_DEPLOYED", "UNKNOWN"})
  /\ deployedCount(list) + undeployedCount(list) = Len(list)
  /\ \A k \in 1..Len(list) :
       list[k].stackStatus \in {"NOT_DEPLOYED", "UNKNOWN"}
         <=> list[k].stackId = NoStackId

(***************************************************************************)
(* C24: in every summary, that of listCDKStacks over the entries it made   *)
(* and those of the main, deploy and destroy menus over the stored         *)
(* inventory, deployedCount is the number of entries whose status is       *)
(* neither NOT_DEPLOYED nor UNKNOWN, which are the entries with a stackId, *)
(* and deployedCount plus the not-deployed count is the number of stacks;  *)
(* the destroy menu counts its deployedStacks, which are as many.          *)
(***************************************************************************)
C24_SummaryCounters ==
  /\ SummaryCounts(detailedStacks)
  /\ SummaryCounts(stacks)
  /\ Len(deployedStacks) = deployedCount(stacks)

C24_Witness ==
  /\ app = "destroySelect"
  /\ Len(stacks) = 3
  /\ deployedCount(stacks) = 2
  /\ undeployedCount(stacks) = 1
  /\ CountWithStatus(stacks, {"ROLLBACK_COMPLETE"}) = 1
  /\ CountWithStatus(stacks, {"NOT_DEPLOYED"}) = 1

(***************************************************************************)
(* The listing: vocabulary                                                 *)
(***************************************************************************)
\* The `cdk list` process of the refresh, once it has been run.
ListingCall == calls[Len(calls)]

ListingParsed ==
  /\ app \in {"lookup", "loop"}
  /\ calls # << >>
  /\ ListingCall.verb = "list"

\* The line ends with a parenthesized text.
EndsWithParenthesized(line) ==
  /\ Len(line) >= 3
  /\ line[Len(line)] = ")"
  /\ \E p \in 1..(Len(line) - 2) : line[p] = "("

\* Where the parenthesized text that ends the line opens.
ParenthesisAt(line) ==
  CHOOSE p \in 1..Len(line) :
    /\ line[p] = "("
    /\ \A q \in (p + 1)..Len(line) : line[q] # "("

ParenthesizedText(line) ==
  SubSeq(line, ParenthesisAt(line) + 1, Len(line) - 1)

WithoutParenthesized(line) ==
  IF EndsWithParenthesized(line)
    THEN trim(SubSeq(line, 1, ParenthesisAt(line) - 1))
    ELSE line

\* The last of the segments the slashes cut `s` into.
LastSegment(s) ==
  IF \E k \in 1..Len(s) : s[k] = "/"
    THEN LET k == CHOOSE x \in 1..Len(s) :
                    /\ s[x] = "/"
                    /\ \A y \in (x + 1)..Len(s) : s[y] # "/"
         IN SubSeq(s, k + 1, Len(s))
    ELSE s

\* `stack` is the declared stack C25 describes for this line.
DeclaredAsListed(stack, line) ==
  /\ stack.fullName = trim(line)
  /\ stack.cfStackName =
       IF EndsWithParenthesized(trim(line))
         THEN ParenthesizedText(trim(line))
         ELSE trim(line)
  /\ stack.displayName = LastSegment(WithoutParenthesized(trim(line)))

(***************************************************************************)
(* C25 as stated: when the listing has been parsed, listStacks has         *)
(* returned one declared stack for every line of the output that is not    *)
(* noise, in the order of the listing; for each, fullName is the trimmed   *)
(* line, the                                                               *)
(* backing identifier is the parenthesized text that ends the line if      *)
(* there is one and the line itself otherwise, and displayName is the last *)
(* '/'-separated segment of the line without that parenthesized part.      *)
(***************************************************************************)
C25_DeclaredStacksAsListed ==
  ListingParsed =>
    LET stackLines == SelectSeq(ListingCall.output, IsStackLine) IN
      /\ Len(declared) = Len(stackLines)
      /\ \A k \in 1..Len(declared) :
           DeclaredAsListed(declared[k], stackLines[k])

\* The line ends with a pair of parentheses, empty or not.
EndsWithParentheses(line) ==
  /\ Len(line) >= 2
  /\ line[Len(line)] = ")"
  /\ \E p \in 1..(Len(line) - 1) :
       /\ line[p] = "("
       /\ \A k \in (p + 1)..(Len(line) - 1) : line[k] # ")"

\* Where that pair opens: the first "(" that no ")" follows before the one
\* that ends the line.
ParenthesesAt(line) ==
  CHOOSE p \in 1..(Len(line) - 1) :
    /\ line[p] = "("
    /\ \A k \in (p + 1)..(Len(line) - 1) : line[k] # ")"
    /\ \A q \in 1..(p - 1) :
         line[q] = "(" => \E k \in (q + 1)..(p - 1) : line[k] = ")"

\* The text between the parentheses that end the line.
InParentheses(line) ==
  SubSeq(line, ParenthesesAt(line) + 1, Len(line) - 1)

\* The line without the parentheses that end it and the white space before
\* them; the line itself when it ends with none.
BeforeParentheses(line) ==
  IF EndsWithParentheses(line)
    THEN trim(SubSeq(line, 1, ParenthesesAt(line) - 1))
    ELSE line

\* `stack` is the declared stack the amended C25 describes for this line.
DeclaredAsParsed(stack, line) ==
  LET clean   == BeforeParentheses(trim(line))
      segment == LastSegment(clean)
  IN /\ stack.fullName = trim(line)
     /\ stack.cfStackName =
          IF EndsWithParentheses(trim(line)) /\ InParentheses(trim(line)) # << >>
            THEN InParentheses(trim(line))
            ELSE clean
     /\ stack.displayName = trim(IF segment = << >> THEN clean ELSE segment)

(***************************************************************************)
(* C25 amended: when the listing has been parsed, listStacks has returned  *)
(* one declared stack for every line of the output that is not noise, in   *)
(* the order of the listing; for each, fullName is the trimmed line; the   *)
(* backing identifier is the text between the parentheses that end the     *)
(* line when there is such text, and otherwise the line without a trailing *)
(* empty pair of parentheses (the line itself when it ends with no         *)
(* parentheses); displayName is the last '/'-separated segment of the line *)
(* without its trailing parenthesized part, with the white space around it *)
(* removed, and that whole line when this segment is empty (the path ends  *)
(* with '/').                                                              *)
(***************************************************************************)
C25_DeclaredStacksAsParsed ==
  ListingParsed =>
    LET stackLines == SelectSeq(ListingCall.output, IsStackLine) IN
      /\ Len(declared) = Len(stackLines)
      /\ \A k \in 1..Len(declared) :
           DeclaredAsParsed(declared[k], stackLines[k])

C25_Witness ==
  /\ ListingParsed
  /\ ListingCall.output = <<LineEmptyParens, LineSlash>>
  /\ Len(declared) = 2
  /\ declared[1] = [displayName |-> <<"A">>, fullName |-> LineEmptyParens,
                    cfStackName |-> <<"A">>]
  /\ declared[2] = [displayName |-> LineSlash, fullName |-> LineSlash,
                    cfStackName |-> LineSlash]

(***************************************************************************)
(* Searching: vocabulary                                                   *)
(***************************************************************************)
\* The filtered view is what filterChoices makes of the current query.
ViewMatchesQuery == filteredChoices = filterChoices(searchQuery)

(***************************************************************************)
(* C26: in every reachable state of a selection session the filtered view  *)
(* equals filterChoices(current query) computed from the full list: every  *)
(* event that changes the query has refiltered before the next key is      *)
(* handled.                                                                *)
(***************************************************************************)
C26_ViewIsFilterOfQuery ==
  pc = "active" => ViewMatchesQuery

(***************************************************************************)
(* C27: a customMultiSelect session is Browsing or Searching while it      *)
(* runs.  "/" while Browsing enters Searching; Enter or Escape while       *)
(* Searching returns to Browsing and does not resolve the session; Enter   *)
(* while Browsing resolves it; the session is resolved by no other step,   *)
(* so only from Browsing, and it changes between Browsing and Searching in *)
(* no other step.                                                          *)
(***************************************************************************)
C27_BrowsingSearchingConfirmed ==
  [][ (engine = "multi" /\ pc = "active") =>
        /\ (~isSearching /\ lastKey' = "Slash")
             => (isSearching' /\ pc' = "active")
        /\ (isSearching /\ lastKey' \in {"Enter", "Escape"})
             => (~isSearching' /\ pc' = "active" /\ result' = result)
        /\ (~isSearching /\ lastKey' = "Enter")
             => (pc' = "resolved" /\ result'.kind = "list")
        /\ pc' = "resolved" => (~isSearching /\ lastKey' = "Enter")
        /\ isSearching' # isSearching
             => /\ pc' = "active"
                /\ lastKey' \in {"Slash", "Enter", "Escape"}
    ]_vars

C27_Witness ==
  /\ engine = "multi"
  /\ pc = "resolved"
  /\ ~isSearching
  /\ searchQuery # << >>
  /\ lastKey = "Enter"
  /\ result.kind = "list"
  /\ result.value # << >>

(***************************************************************************)
(* C28: a PrintableChar event followed immediately by a Backspace event    *)
(* restores the query and the filtered view to what they were before the   *)
(* character was typed, and leaves selectedIndices unchanged: at the step  *)
(* that types the character, the query without its last character is the  *)
(* query before the step, what Backspace then shows, the filter of that    *)
(* query, is the view before the step, and neither step changes            *)
(* selectedIndices.  Backspace on an empty query leaves the query empty    *)
(* and the view equal to the full list.                                    *)
(***************************************************************************)
C28_TypeThenBackspaceRestores ==
  [][ /\ PrintableStep =>
           /\ sliceDropLast(searchQuery') = searchQuery
           /\ filterChoices(sliceDropLast(searchQuery')) = filteredChoices
           /\ selectedIndices' = selectedIndices
      /\ BackspaceStep =>
           /\ searchQuery' = sliceDropLast(searchQuery)
           /\ filteredChoices' = filterChoices(searchQuery')
           /\ selectedIndices' = selectedIndices
           /\ searchQuery = << >> =>
                (searchQuery' = << >> /\ filteredChoices' = AllChoices)
    ]_vars

(***************************************************************************)
(* C29: the status lookups of listCDKStacks are strictly sequential and in *)
(* declared order: at most one lookup is in flight at any time, the lookup *)
(* in flight is that of the declared stack that follows those already      *)
(* answered (returned or failed), and the answered lookups are those of    *)
(* the first declared stacks, in declared order.                           *)
(***************************************************************************)
C29_LookupsSequential ==
  /\ Cardinality(inFlight) <= 1
  /\ inFlight # {} =>
       /\ app = "lookup"
       /\ inFlight = {Len(lookups) + 1}
       /\ Len(lookups) < Len(declared)
  /\ Len(lookups) <= Len(declared)
  /\ \A i \in 1..Len(lookups) :
       lookups[i].cfStackName = declared[i].cfStackName

C29_Witness ==
  /\ app = "lookup"
  /\ Len(declared) = 3
  /\ inFlight = {3}
  /\ Len(lookups) = 2
  /\ lookups[1].response.kind = "found"
  /\ lookups[2].response.kind = "error"

\* The multi-select of the deploy or destroy menu was confirmed with
\* nothing selected, and this step is the menu going on after its timer.
EmptySelectionConfirmed ==
  /\ app \in {"deployWait", "destroyWait"}
  /\ selectedStacks = << >>

(***************************************************************************)
(* C30: confirming the deploy or destroy multi-select with nothing         *)
(* selected invokes no executor command, neither the CDK availability      *)
(* check nor deploy or destroy: the multi-select resolving spawns nothing; *)
(* after its timer the menu prints "No stacks selected." and returns to    *)
(* the loop of start() in that step, and the next step shows the main      *)
(* menu, with no process spawned since the multi-select started.           *)
(***************************************************************************)
C30_EmptySelectionDispatchesNothing ==
  [][ /\ app \in {"deploySelect", "destroySelect"} => calls' = calls
      /\ EmptySelectionConfirmed =>
           /\ calls' = << >>
           /\ app' = "loop"
           /\ isRunning'
           /\ message' = "No stacks selected."
      /\ (app = "loop" /\ message = "No stacks selected.") =>
           /\ app' = "mainMenu"
           /\ calls' = << >>
    ]_vars

C30_Witness ==
  /\ app = "loop"
  /\ isRunning
  /\ message = "No stacks selected."
  /\ selectedStacks = << >>
  /\ calls = << >>
  /\ Len(deployedStacks) >= 1

(***************************************************************************)
(* C31: ToggleSelect pressed while the filtered view is empty, or while no *)
(* item is under the cursor, changes neither selectedIndices nor the list  *)
(* of selected values and raises no error: the session goes on.            *)
(***************************************************************************)
C31_ToggleWithoutItemIsHarmless ==
  [][ (ToggleStep /\ ~ItemUnderCursor) =>
        /\ selectedIndices' = selectedIndices
        /\ selectedItems' = selectedItems
        /\ pc' = "active"
    ]_vars

(***************************************************************************)
(* The loop of start(): vocabulary                                         *)
(***************************************************************************)
\* This step is the main menu being confirmed.
MainMenuConfirmed == app = "mainMenu" /\ app' # "exited"

\* The manager is handling the action chosen in the main menu.
HandlingAction ==
  app \in {"listing", "lookup", "deploySelect", "destroySelect",
           "deployWait", "destroyWait",
           "deployCheck", "destroyCheck", "deployRun", "destroyRun", "prompt"}

(***************************************************************************)
(* C32: start() shows the main menu again after every deploy, destroy,     *)
(* refresh or unrecognized/empty action and returns only after "exit" has  *)
(* been confirmed in the main menu.  While the process runs: the loop      *)
(* stops only in the step that confirms "exit", and start() returns only   *)
(* then; an action that is handled leaves the manager either handling it   *)
(* or back in the loop, still running; from the loop, still running, the   *)
(* next step shows the main menu (after the first load of the inventory);  *)
(* and the main menu confirmed on an empty view (the value "") spawns      *)
(* nothing, changes nothing of the inventory and goes back to the loop.    *)
(***************************************************************************)
C32_MenuShownUntilExit ==
  [][ /\ (isRunning /\ ~isRunning') =>
           (MainMenuConfirmed /\ menuAction' = "exit")
      /\ (app # "returned" /\ app' = "returned") =>
           (app = "loop" /\ menuAction = "exit" /\ ~isRunning)
      /\ (MainMenuConfirmed /\ menuAction' # "exit") =>
           (isRunning' /\ (HandlingAction' \/ app' = "loop"))
      /\ (HandlingAction /\ app' # "exited") =>
           (isRunning' /\ (HandlingAction' \/ app' = "loop"))
      /\ (app = "loop" /\ isRunning) =>
           app' = IF stacksLoaded THEN "mainMenu" ELSE "listing"
      /\ (MainMenuConfirmed /\ menuAction' = "") =>
           /\ app' = "loop"
           /\ isRunning'
           /\ calls' = << >>
           /\ UNCHANGED <<stacks, stacksLoaded, selectedStacks, lookups>>
    ]_vars

C32_Witness ==
  /\ app = "loop"
  /\ isRunning
  /\ stacksLoaded
  /\ menuAction = ""
  /\ calls = << >>
  /\ Len(stacks) >= 2

\* The manager is refreshing the inventory.
Refreshing == app \in {"listing", "lookup"}

(***************************************************************************)
(* C33: reconciliation runs on the first display of the main menu and      *)
(* afterwards only when "refresh" is chosen.  A refresh starts only from   *)
(* the loop while the inventory was never loaded, or in the step that      *)
(* confirms "refresh" in the main menu; the listing is run, a lookup is    *)
(* sent or answered and the stored inventory changes only during a         *)
(* refresh; once loaded the inventory stays loaded.  So showing the main   *)
(* menu again, confirming an empty selection and completing a deploy or    *)
(* destroy batch leave the stored inventory unchanged.                     *)
(***************************************************************************)
C33_ReconciliationOnlyOnRefresh ==
  [][ /\ (~Refreshing /\ Refreshing') =>
           \/ app = "loop" /\ ~stacksLoaded
           \/ MainMenuConfirmed /\ menuAction' = "refresh"
      /\ ~Refreshing =>
           /\ UNCHANGED <<stacks, declared, inFlight>>
           /\ lookups' \in {lookups, << >>}
           /\ ~Spawns({"list"})
      /\ stacksLoaded => stacksLoaded'
      /\ (app \in {"prompt", "deploySelect", "destroySelect", "deployRun",
                   "destroyRun", "deployCheck", "destroyCheck",
                   "deployWait", "destroyWait"}
          \/ (app = "loop" /\ stacksLoaded)) =>
           (UNCHANGED stacks /\ ~Refreshing')
    ]_vars

C33_Witness ==
  /\ app = "loop"
  /\ isRunning
  /\ stacksLoaded
  /\ message = "Successfully deployed"
  /\ Len(stacks) >= 2
  /\ CountWithStatus(stacks, {"NOT_DEPLOYED"}) = Len(stacks)
  /\ Len(lookups) = Len(stacks)

\* The fullName values of the inventory entries with a resolved backing
\* identifier (stackId defined).
ResolvedFullNames ==
  { stacks[j].stackName :
      j \in { i \in 1..Len(stacks) : stacks[i].stackId # NoStackId } }

\* The destroy processes spawned for the menu action.
DestroyCallsMade == SelectSeq(calls, LAMBDA c : c.verb = "destroy")

(***************************************************************************)
(* C34: every stack offered in the destroy menu, hence every name a        *)
(* destroy is dispatched for, is an inventory entry with a resolved        *)
(* backing identifier (stackId defined): while the destroy menu is handled *)
(* the selection holds only fullName values of such entries and a destroy  *)
(* process is given their names, one per selected entry; when the          *)
(* inventory has no such entry the destroy menu is at none of the          *)
(* positions of its selection session or of its dispatch, nothing is       *)
(* selected and no process is spawned; and a destroy process is spawned    *)
(* for no other menu action.                                               *)
(***************************************************************************)
C34_DestroyOnlyResolvedStacks ==
  /\ DestroyCallsMade # << >> => menuAction = "destroy"
  /\ app \in {"destroySelect", "destroyWait", "destroyCheck", "destroyRun"} =>
       menuAction = "destroy"
  /\ menuAction = "destroy" =>
       /\ \A k \in 1..Len(selectedStacks) :
            selectedStacks[k] \in ResolvedFullNames
       /\ \A c \in 1..Len(DestroyCallsMade) :
            /\ Len(DestroyCallsMade[c].names) = Len(selectedStacks)
            /\ \A k \in 1..Len(selectedStacks) :
                 DestroyCallsMade[c].names[k]
                   = removeParenthetical(selectedStacks[k])
       /\ ResolvedFullNames = {} =>
            /\ app \notin {"destroySelect", "destroyWait", "destroyCheck",
                            "destroyRun"}
            /\ selectedStacks = << >>
            /\ calls = << >>

C34_Witness ==
  /\ menuAction = "destroy"
  /\ app = "prompt"
  /\ Len(stacks) = 3
  /\ Cardinality(ResolvedFullNames) = 2
  /\ Len(selectedStacks) = 2
  /\ Len(DestroyCallsMade) = 1

\* This step is a refresh failing with an error that does not end the
\* process.
RefreshFailedStep ==
  /\ Refreshing
  /\ app' = "loop"
  /\ message' = "Failed to list CDK stacks"

(***************************************************************************)
(* C35: when a refresh of the inventory fails with an error that is not    *)
(* the fatal listing failure, the previously loaded inventory is left      *)
(* unchanged: the step of the failure does not change the stored           *)
(* inventory.                                                              *)
(***************************************************************************)
C35_FailedRefreshKeepsInventory ==
  [][RefreshFailedStep => stacks' = stacks]_vars


(***************************************************************************)
(* C36                                                                     *)
(***************************************************************************)
\* main() is still authenticating.
Authenticating ==
  app \in {"main", "authMenu", "checkVault", "listProfiles", "profileMenu",
           "login", "export", "profileRegion", "credentialsPrompt",
           "sessionTokenPrompt", "verifyConnection", "authDone"}

\* C36: the manager is started only after authentication succeeded.  On
\* every path through main() (vault profile flag, vault menu, direct
\* credentials, existing credentials, exit) a step that ends the
\* authentication either leaves `authenticated` true and constructs the
\* manager, or leaves it false and exits the process with code 1 without
\* starting the manager; start() is taken only with `authenticated` true,
\* and an authentication step that returned false is followed by the exit
\* with code 1 only.  (Ctrl-C in a menu ends the process before the
\* authentication step returns.)
C36_StartOnlyWhenAuthenticated ==
  [][ /\ (Authenticating /\ ~Authenticating' /\ ~authMenu_CtrlC)
         => \/ authenticated' /\ app' = "idle" /\ exitCode' = -1
            \/ ~authenticated' /\ app' = "exited" /\ exitCode' = 1
               /\ ~isRunning'
      /\ (app = "authDone" /\ ~authenticated)
         => (app' = "exited" /\ exitCode' = 1)
      /\ start => authenticated
      /\ isRunning' => authenticated' ]_vars

\* The manager was started on the vault profile flag path, after the three
\* aws-vault commands succeeded.
C36_Witness ==
  /\ isRunning
  /\ app = "mainMenu"
  /\ authenticated
  /\ vaultProfile
  /\ child.value = "success"


(***************************************************************************)
(* C38                                                                     *)
(***************************************************************************)
\* An event of the call in progress: close, error or the timer.
ChildEventStep ==
  \/ executeCommandWithPath_Timeout
  \/ executeCommandWithPath_Close
  \/ executeCommandWithPath_Error

\* resolve has been called exactly once; a timer that fired killed the
\* child and made the result the time-out failure.
ResolvedOnce ==
  /\ child.resolved
  /\ child.resolveCalls = 1
  /\ child.value \in {"success", "failure", "timed out"}
  /\ child.timeout = "fired" => (child.killed /\ child.value = "timed out")
  /\ child.killed => child.timeout = "fired"

\* C38: executeCommandWithPath resolves exactly once for every interleaving
\* of the child's close event, its error event and the 30-second timeout:
\* after each of these events resolve has been called exactly once; if the
\* timeout fired first the child was killed and the result is the failure
\* of the timeout; an event after the first changes neither the result nor
\* the number of calls of resolve, and kills nothing.
C38_ResolvesExactlyOnce ==
  [][ ChildEventStep
      => /\ ResolvedOnce'
         /\ child.resolved
            => /\ child'.value = child.value
               /\ child'.killed = child.killed
               /\ child'.resolveCalls = child.resolveCalls ]_vars

\* The timer fired first, then the killed child closed and emitted an error.
C38_Witness ==
  /\ child.timeout = "fired"
  /\ child.closed
  /\ child.errored
  /\ child.value = "timed out"


(***************************************************************************)
(* C37                                                                     *)
(***************************************************************************)
\* How many entries of a list of values equal v.
Occurrences(list, v) == Cardinality({k \in 1..Len(list) : list[k] = v})

\* The list of selected values holds one entry per member of
\* selectedIndices, the value of that original index.
ValuesMatchIndices ==
  /\ Len(selectedItems) = Cardinality(selectedIndices)
  /\ \A i \in selectedIndices :
       /\ i \in 0..(NumChoices - 1)
       /\ Occurrences(selectedItems, ValueOf(i))
            = Cardinality({j \in selectedIndices \cap (0..(NumChoices - 1)) :
                             ValueOf(j) = ValueOf(i)})

\* C37: in a multi-select session, after any sequence of toggles and filter
\* changes, the list of selected values holds exactly one entry per member
\* of selectedIndices, the value of that original index, and the displayed
\* 'Selected: N' count equals the number of members of selectedIndices.
C37_ValuesMatchIndices ==
  multiSelect
    => /\ ValuesMatchIndices
       /\ screen.selectedCount = Cardinality(selectedIndices)



=============================================================================
